---- MODULE Spec2Model ----
(***************************************************************************)
(* move-site: remote migration and backup engine.                          *)
(*                                                                         *)
(* One behaviour is one command invocation (one process run).  The state   *)
(* is the position of the running operation, the SSHTransfer objects it    *)
(* constructed, the trace of remote/local commands it issued with their    *)
(* outcomes, the console messages that matter, and the local temporary     *)
(* files.  Every await of the source is one step; the outcome of the       *)
(* awaited command (exit code 0, non-zero exit code, rejected promise) is  *)
(* chosen by the environment.                                              *)
(***************************************************************************)
EXTENDS Integers, Sequences, FiniteSets, TLC

VARIABLES
  op,         \* the CLI command of this invocation
  cfg,        \* its options and the environment entry it works on
  pc,         \* position of the running operation
  proc,       \* "running", "returned", "exited" (process.exit), "hung" or "threw"
  exitCode,   \* process exit code once ended
  sess,       \* the SSHTransfer objects: fields of src/transfer/ssh.ts
  log,        \* commands issued so far, in order, with their outcome
  msgs,       \* console messages printed so far (tags)
  localFiles, \* local temporary files that exist
  loc,        \* locals of the running operation
  remote      \* what is on the remote host: ownership under the site root,
              \* the files of the backups directory

vars == <<op, cfg, pc, proc, exitCode, sess, log, msgs, localFiles, loc, remote>>

-----------------------------------------------------------------------------
(* Bounds of the model *)

\* how many option flags one invocation combines
MaxFlags == 2
\* how many archives a listing of the backups directory returns at most
MaxBackups == 2
\* how many environments a configuration holds at most
MaxEnvs == 2
\* how many files one call of uploadFiles is given at most
MaxFiles == 3
\* how many backup names are generated while the clock is observed
MaxNames == 2
\* how many calls are made on one SSHTransfer object
MaxCalls == 4
\* how many environments are entered in one run of the wizard
MaxPasses == 2

-----------------------------------------------------------------------------
(* Values *)

\* outcome of an awaited remote command: exit code 0, exit code # 0, or the
\* promise rejects (stream/channel error)
ExecRes == {"ok", "fail", "threw"}

FolderFlags == {"all", "themes", "plugins", "uploads", "core"}

FlagSets ==
  LET
    AllFlags == FolderFlags \cup {"database"}
  IN
    {o \in SUBSET AllFlags : Cardinality(o) <= MaxFlags}

SessIds == {"backup", "main"}

\* a fresh SSHTransfer: not yet constructed by any operation
NoSession ==
  [made |-> FALSE, connected |-> FALSE, sshClient |-> FALSE, disc |-> FALSE,
   ready |-> FALSE]

\* new SSHTransfer(envConfig)
SSHTransfer ==
  [made |-> TRUE, connected |-> FALSE, sshClient |-> FALSE, disc |-> FALSE,
   ready |-> FALSE]

\* outcomes of SSHTransfer.connect: success, key file unreadable, sftp
\* connect rejected, ssh2 client (exec channel) rejected
ConnectRes == {"ok", "keyFail", "sftpFail", "sshFail"}

\* SSHTransfer.connect: connected is set as soon as the sftp client is up;
\* the ssh2 client object is assigned before its own connection is awaited;
\* ready: that client has reported 'ready' and was not ended since
connect(s, r) ==
  CASE r = "ok"      -> [s EXCEPT !.connected = TRUE, !.sshClient = TRUE,
                                  !.ready = TRUE]
    [] r = "sshFail" -> [s EXCEPT !.connected = TRUE, !.sshClient = TRUE,
                                  !.ready = FALSE]
    [] OTHER         -> s

\* a disconnect that forgets to close
disconnect_skip(s) == [s EXCEPT !.disc = TRUE]

\* SSHTransfer.disconnect
disconnect(s) ==
  IF s.connected
    THEN [s EXCEPT !.connected = FALSE, !.sshClient = FALSE, !.disc = TRUE,
                   !.ready = FALSE]
    ELSE [s EXCEPT !.disc = TRUE]

\* an exec without the guard: the call on the missing client is a TypeError
exec_unguarded(s) ==
  IF ~s.sshClient THEN {"type-error"}
  ELSE IF ~s.ready THEN {"client-not-connected"}
  ELSE ExecRes

\* SSHTransfer.exec (ssh.ts 214-242), the outcomes of one call: without an
\* ssh2 client object it throws 'SSH client not connected'; a client that is
\* not ready refuses the call with its own 'Not connected' error, which
\* rejects the promise; a ready client runs the command
exec(s) ==
  IF ~s.sshClient THEN {"not-connected"}
  ELSE IF ~s.ready THEN {"client-not-connected"}
  ELSE ExecRes

\* a remote host with correct ownership and an empty backups directory
Remote0 == [wrongOwner |-> FALSE, backups |-> {}]

\* file names as token sequences, so that substring tests are computed
generateBackupName(type) == <<"ts", "-", type, ".", "tar", ".", "gz">>

\* instants, in seconds after 2025-12-01T00:00:00Z: two in one minute, the
\* next minute, the same minute of the next hour and of the next day
Instants == {0, 59, 60, 3600, 86400}

\* Date.prototype.toISOString, character by character:
\* YYYY-MM-DDTHH:mm:ss.sssZ in UTC (the instants lie in December 2025)
toISOString(now) ==
  LET Digit(n) == <<"0", "1", "2", "3", "4", "5", "6", "7", "8", "9">>[n + 1]
      Two(n) == <<Digit(n \div 10), Digit(n % 10)>>
  IN  <<"2", "0", "2", "5", "-", "1", "2", "-">>
        \o Two(1 + now \div 86400) \o <<"T">>
        \o Two((now % 86400) \div 3600) \o <<":">>
        \o Two((now % 3600) \div 60) \o <<":">>
        \o Two(now % 60) \o <<".", "0", "0", "0", "Z">>

\* a name that keeps the hour and drops the minute
backupNameAt_hourly(now, type) ==
  LET iso == toISOString(now)
  IN  SubSeq(iso, 1, 10) \o <<"-">> \o SubSeq(iso, 12, 13) \o <<"-", "0", "0">>
        \o <<"-", type, ".", "tar", ".", "gz">>

\* lines 23-28: generateBackupName with the clock reading made explicit:
\* slice(0, 10), then slice(11, 16) with its first ":" replaced by "-"
backupNameAt(now, type) ==
  LET iso == toISOString(now)
      date == SubSeq(iso, 1, 10)
      hhmm == SubSeq(iso, 12, 16)
      colon == CHOOSE i \in 1..(Len(hhmm) + 1) :
                 /\ i <= Len(hhmm) => hhmm[i] = ":"
                 /\ \A j \in 1..(i - 1) : hhmm[j] # ":"
      time == [i \in 1..Len(hhmm) |-> IF i = colon THEN "-" ELSE hhmm[i]]
  IN  date \o <<"-">> \o time \o <<"-", type, ".", "tar", ".", "gz">>

\* String.prototype.includes on token sequences
includes(name, needle) ==
  \E i \in 0..(Len(name) - Len(needle)) :
    SubSeq(name, i + 1, i + Len(needle)) = needle

toLowerCase(str) ==
  LET
    \* String.prototype.toLowerCase, character by character
    LowerChar(c) ==
      CASE c = "Y" -> "y"
        [] c = "E" -> "e"
        [] c = "S" -> "s"
        [] c = "N" -> "n"
        [] c = "O" -> "o"
        [] c = "A" -> "a"
        [] c = "B" -> "b"
        [] OTHER   -> c
  IN
    [i \in 1..Len(str) |-> LowerChar(str[i])]

\* 'all' added to the selected folders instead of standing for them
getFoldersToBackup_allToo(o) ==
  SelectSeq(<<"all", "themes", "plugins", "uploads", "core">>,
            LAMBDA f : f \in o)

\* getFoldersToBackup(options): the file categories, in archive order
getFoldersToBackup(o) ==
  IF "database" \in o /\ (o \cap FolderFlags) = {}
    THEN <<>>
    ELSE IF "all" \in o
      THEN <<"all">>
      ELSE LET folders == SelectSeq(<<"themes", "plugins", "uploads", "core">>,
                                    LAMBDA f : f \in o)
           IN  IF folders = <<>> /\ "database" \notin o
                 THEN <<"all">>
                 ELSE folders

\* backupOptions built by runUpload for its pre-upload backup
backupOptions(o) == o \cap FolderFlags

\* the options the running runBackup call was given
BackupFlags == IF op = "upload" THEN backupOptions(cfg.flags) ELSE cfg.flags
BackupDryRun == IF op = "upload" THEN FALSE ELSE cfg.dryRun

\* one issued command: what it is, what it works on, how it ended and, for
\* a database client, how it connects ("socket" or "host")
Entry(c, a, r) == [cmd |-> c, arg |-> a, res |-> r, via |-> "-"]
DbEntry(c, a, r, v) == [cmd |-> c, arg |-> a, res |-> r, via |-> v]

\* part_012 lines 379-398, download.ts lines 26-45: --socket when the
\* database entry has one, else -h host
buildMysqlConnectionArgs(socket) == IF socket THEN "socket" ELSE "host"

\* backup.ts lines 166-182 and 605, part_012 lines 538-606: the command
\* text spells out -h "${host}"
hostArgs(socket) == "host"

\* a check that lets every environment through
noSsh_never(c) == FALSE

\* if (!envConfig.ssh): the environment has no SSH settings
noSsh(c) == ~c.hasSsh

\* tar -xzf run by the SSH user: the files it writes belong to that user,
\* who may or may not be the configured files owner
Extracted(rem) == {rem, [rem EXCEPT !.wrongOwner = TRUE]}

\* find <root> -mindepth 1 ! -user <owner> | head -1, then
\* stdout.trim().length > 0
hasWrongOwner(rem) == rem.wrongOwner

\* a reconciliation that always corrects
AfterCheckOwner_always(wrong) == "chown"

\* if (!hasWrongOwner) "already correct" else the chown command
AfterCheckOwner(wrong) == IF wrong THEN "chown" ELSE "return"

\* a reconciliation whose failure is fatal
AfterChown_fatal(r) == IF r = "ok" THEN "return" ELSE "exit1"

\* chownResult.code !== 0 prints a warning; both outcomes fall through to
\* the end of the try block
AfterChown(r) == IF r = "threw" THEN "exit1" ELSE "return"

\* find <root> -mindepth 1 -exec chown <owner>:<group> {} +: exit code 0
\* means every file was changed; otherwise some may remain
Chowned(rem, r) ==
  CASE r = "ok"    -> {[rem EXCEPT !.wrongOwner = FALSE]}
    [] r = "fail"  -> {rem, [rem EXCEPT !.wrongOwner = FALSE]}
    [] OTHER       -> {rem}

-----------------------------------------------------------------------------
(* Control transfer *)

\* process.exit(1): the process ends at once; pending finally blocks never run
Exit1 ==
  /\ pc' = "end"
  /\ proc' = "exited"
  /\ exitCode' = 1
  /\ sess' = sess

\* return before any session was constructed
Return0 ==
  /\ pc' = "end"
  /\ proc' = "returned"
  /\ exitCode' = 0
  /\ sess' = sess

\* normal completion of the try block of the function owning session s:
\* finally { await transfer.disconnect() }, then back to the caller
Finally(s) ==
  /\ sess' = [sess EXCEPT ![s] = disconnect(@)]
  /\ IF s = "backup" /\ op = "upload"
       THEN pc' = "u_connect" /\ proc' = proc /\ exitCode' = exitCode
       ELSE pc' = "end" /\ proc' = "returned" /\ exitCode' = 0

\* continue inside the same function
Stay(target) ==
  /\ pc' = target
  /\ UNCHANGED <<proc, exitCode, sess>>

\* where a step leads: a position, "exit1" (catch block / explicit
\* process.exit(1)) or "return" (end of the try block)
Goto(target, s) ==
  CASE target = "exit1"  -> Exit1
    [] target = "return" -> Finally(s)
    [] OTHER             -> Stay(target)

Running == proc = "running"

-----------------------------------------------------------------------------
(* resolveEnvironment: src/config/resolver.ts *)

Identifiers ==
  { <<"a">>, <<"A">>, <<"b">>, <<"a", "b">>, <<"c">>, <<"constructor">> }

\* config.environments: the entries in key order, keys distinct
Environments ==
  LET
    \* domain keys, environment types and identifiers, as character sequences;
    \* "constructor" stands for the names every object inherits
    DomainKeys ==
      { <<"a">>, <<"a", "b">>, <<"A", "b">>, <<"b">>, <<"constructor", "b">> }

    Kinds == { <<>>, <<"a">>, <<"B">> }
  IN
    UNION { { e \in [1..n -> [domain : DomainKeys, type : Kinds]] :
                \A i, j \in 1..n : i # j => e[i].domain # e[j].domain } :
            n \in 0..MaxEnvs }

IsDomainKey(environments, identifier) ==
  \E i \in DOMAIN environments : environments[i].domain = identifier

\* line 35: environments[identifier] is truthy
hasProperty(environments, identifier) ==
  LET
    \* property names a parsed JSON object answers to without having them as
    \* own keys (Object.prototype)
    Inherited == { <<"constructor">> }
  IN
    IsDomainKey(environments, identifier) \/ identifier \in Inherited

\* lines 43-48: env.type && env.type.toLowerCase() === lowerIdentifier
IsTypeMatch(identifier, env) ==
  env.type # <<>> /\ toLowerCase(env.type) = toLowerCase(identifier)

\* lines 52-57: lowerDomain.includes(lowerIdentifier)
IsFuzzyMatch(identifier, env) ==
  includes(toLowerCase(env.domain), toLowerCase(identifier))

\* lines 39-58: the type matches, or the partial domain matches when there
\* is no type match
matchesOf(identifier, environments) ==
  LET byType == SelectSeq(environments, LAMBDA e : IsTypeMatch(identifier, e))
  IN  IF byType # <<>>
        THEN byType
        ELSE SelectSeq(environments, LAMBDA e : IsFuzzyMatch(identifier, e))

\* what one call of resolveEnvironment yields: the returned domain (kind
\* "found"), null ("null") or the selector ("select"); whether the "Using"
\* notice was printed; the environments listed with the error
Outcome(k, dom, n, m, l) ==
  [kind |-> k, domain |-> dom, notice |-> n, matches |-> m, listed |-> l]

\* resolution not yet run
NoOutcome == Outcome("", <<>>, FALSE, <<>>, <<>>)

\* a resolver that looks for type and partial matches before the exact key
resolveEnvironment_matchFirst(identifier, environments) ==
  IF Len(environments) = 0
    THEN Outcome("null", <<>>, FALSE, <<>>, <<>>)
    ELSE LET matches == matchesOf(identifier, environments) IN
         CASE Len(matches) = 0 ->
                IF hasProperty(environments, identifier)
                  THEN Outcome("found", identifier, FALSE, <<>>, <<>>)
                  ELSE Outcome("null", <<>>, FALSE, <<>>, environments)
           [] Len(matches) = 1 ->
                Outcome("found", matches[1].domain, TRUE, matches, <<>>)
           [] OTHER ->
                Outcome("select", <<>>, FALSE, matches, <<>>)

\* lines 22-82
resolveEnvironment(identifier, environments) ==
  IF Len(environments) = 0
    THEN Outcome("null", <<>>, FALSE, <<>>, <<>>)
    ELSE IF hasProperty(environments, identifier)
      THEN Outcome("found", identifier, FALSE, <<>>, <<>>)
      ELSE LET matches == matchesOf(identifier, environments) IN
           CASE Len(matches) = 0 ->
                  Outcome("null", <<>>, FALSE, <<>>, environments)
             [] Len(matches) = 1 ->
                  Outcome("found", matches[1].domain, TRUE, matches, <<>>)
             [] OTHER ->
                  Outcome("select", <<>>, FALSE, matches, <<>>)

\* the arguments of a resolution and its outcome
NoRes == [identifier |-> <<>>, environments |-> <<>>, out |-> NoOutcome]

\* lines 121-130 and 22-82: resolveEnvironmentOrExit up to the return of
\* resolveEnvironment or the display of the selector
ResolveEnvironment ==
  /\ Running /\ pc = "resolve"
  /\ LET out == resolveEnvironment(loc.res.identifier, loc.res.environments) IN
       /\ loc' = [loc EXCEPT !.res.out = out]
       /\ CASE out.kind = "null" ->
                 /\ msgs' = msgs \cup (IF Len(loc.res.environments) = 0
                                         THEN {"resolve:none-configured"}
                                         ELSE {"resolve:not-found"})
                 /\ Exit1
            [] out.kind = "found" ->
                 /\ msgs' = msgs \cup (IF out.notice THEN {"resolve:using"}
                                       ELSE {})
                 /\ Stay("resolved")
            [] OTHER ->
                 /\ msgs' = msgs \cup {"resolve:choose"}
                 /\ Stay("select")
  /\ UNCHANGED <<op, cfg, remote, log, localFiles>>

\* lines 87-116: showEnvironmentSelector, the user picks one of the matches
SelectEnvironment ==
  /\ Running /\ pc = "select"
  /\ \E i \in DOMAIN loc.res.out.matches :
       loc' = [loc EXCEPT !.res.out.domain = loc.res.out.matches[i].domain,
                          !.res.out.notice = TRUE]
  /\ msgs' = msgs \cup {"resolve:using"}
  /\ Stay("resolved")
  /\ UNCHANGED <<op, cfg, remote, log, localFiles>>

\* const envConfig = config.environments[environment]: the command goes on
\* with the entry of the returned name; an inherited name yields an object
\* without ssh and database settings
EnvironmentResolved ==
  LET
    \* where each command goes once its environment is resolved
    StartOf(o) ==
      CASE o = "backup"       -> "b_start"
        [] o = "list"         -> "l_start"
        [] o = "delete"       -> "x_start"
        [] o = "download"     -> "g_start"
        [] o = "restore"      -> "r_start"
        [] OTHER              -> "s_start"
  IN
    /\ Running /\ pc = "resolved"
    /\ cfg' = IF IsDomainKey(loc.res.environments, loc.res.out.domain)
                THEN cfg
                ELSE [cfg EXCEPT !.hasSsh = FALSE, !.hasDb = FALSE]
    /\ loc' = [loc EXCEPT !.res = NoRes]
    /\ Stay(StartOf(op))
    /\ UNCHANGED <<op, remote, log, msgs, localFiles>>

\* lines 100-114: the selector is rendered with an onSelect handler only.
\* A user who gives up presses Escape, which no handler receives, so the
\* promise stays pending and the selector stays on screen; or Ctrl-C, on
\* which the rendered application unmounts itself, the promise still stays
\* pending and the process ends with nothing left to run.
CancelEnvironment ==
  /\ Running /\ pc = "select"
  /\ \E o \in {"hung", "exited"} : proc' = o
  /\ msgs' = msgs \cup {"resolve:cancel-key"}
  /\ UNCHANGED <<op, cfg, pc, exitCode, sess, remote, log, localFiles, loc>>

resolveEnvironmentOrExit ==
  \/ ResolveEnvironment \/ SelectEnvironment \/ CancelEnvironment
  \/ EnvironmentResolved

-----------------------------------------------------------------------------
(* runBackup: src/commands/backup.ts *)

Locals0 ==
  LET
    \* TransferResult before uploadFiles has returned
    NoTransferResult == [completed |-> 0, total |-> 0, errors |-> <<>>]
  IN
    [fi |-> 1, filter |-> "full", qi |-> 1, successCount |-> 0,
     backups |-> <<>>, selected |-> <<>>, answer |-> <<>>, planned |-> <<>>,
     round |-> 1, chosen |-> <<>>, di |-> 1, result |-> "", res |-> NoRes,
     reports |-> <<>>, files |-> <<>>, completed |-> 0, total |-> 0,
     errors |-> <<>>, transferResult |-> NoTransferResult,
     now |-> 0, names |-> <<>>, archived |-> 0, wiz |-> <<>>,
     cursorIndex |-> 0, picked |-> <<>>, singleSelect |-> FALSE,
     selectedIndices |-> <<>>]

\* position after folder number fi is done (lines 118, 154-169): the next
\* category, else the database backup when requested and configured, else
\* the end of the try block
NextFolder(fi) ==
  IF fi < Len(getFoldersToBackup(BackupFlags))
    THEN "b_exists"
    ELSE IF "database" \in BackupFlags /\ cfg.hasDb
      THEN IF cfg.prefix # "" THEN "b_tables" ELSE "b_dump"
      ELSE "return"

\* messages printed on the way from folder number fi to NextFolder(fi)
LeaveMsgs(fi) ==
  IF NextFolder(fi) = "return"
    THEN IF "database" \in BackupFlags /\ ~cfg.hasDb
           THEN {"backup:db-skip", "backup:complete"}
           ELSE {"backup:complete"}
    ELSE {}

\* a dry run that forgets the database line
dryRunPlan_noDb(o) ==
  [i \in 1..Len(getFoldersToBackup(o)) |->
     generateBackupName(getFoldersToBackup(o)[i])]

\* lines 88-99: the archive names a dry run prints, one per folder and one
\* for the database when options.database is set
dryRunPlan(o) ==
  [i \in 1..Len(getFoldersToBackup(o)) |->
     generateBackupName(getFoldersToBackup(o)[i])]
    \o (IF "database" \in o THEN <<generateBackupName("database")>> ELSE <<>>)

\* lines 69-104: environment check, dry run, construction of the session
BackupStart ==
  /\ Running /\ pc = "b_start"
  /\ UNCHANGED <<op, cfg, remote, log, localFiles>>
  /\ IF noSsh(cfg)
       THEN /\ msgs' = msgs \cup {"backup:remote-only"}
            /\ Exit1
            /\ loc' = loc
       ELSE IF BackupDryRun
         THEN /\ msgs' = msgs \cup {"backup:dry-run"}
              /\ Return0
              /\ loc' = [loc EXCEPT !.planned = dryRunPlan(BackupFlags)]
         ELSE /\ msgs' = msgs
              /\ sess' = [sess EXCEPT !["backup"] = SSHTransfer]
              /\ pc' = "b_connect"
              /\ loc' = [loc EXCEPT !.fi = 1, !.filter = "full"]
              /\ UNCHANGED <<proc, exitCode>>

\* line 107: await transfer.connect(); a rejection lands in the catch block
BackupConnect ==
  /\ Running /\ pc = "b_connect"
  /\ \E r \in ConnectRes :
       /\ IF r = "ok"
            THEN /\ pc' = "b_mkdir"
                 /\ sess' = [sess EXCEPT !["backup"] = connect(@, r)]
                 /\ UNCHANGED <<proc, exitCode>>
            ELSE /\ pc' = "end" /\ proc' = "exited" /\ exitCode' = 1
                 /\ sess' = [sess EXCEPT !["backup"] = connect(@, r)]
  /\ UNCHANGED <<op, cfg, remote, log, msgs, localFiles, loc>>

\* lines 112-115: mkdir -p of the backups directory; a non-zero exit is thrown
BackupMkdir ==
  /\ Running /\ pc = "b_mkdir"
  /\ \E r \in ExecRes :
       /\ log' = Append(log, Entry("mkdir", "backups", r))
       /\ Goto(IF r # "ok" THEN "exit1" ELSE NextFolder(0), "backup")
       /\ msgs' = IF r # "ok" THEN msgs ELSE msgs \cup LeaveMsgs(0)
  /\ UNCHANGED <<op, cfg, remote, localFiles, loc>>

\* a loop that archives a category without looking at the answer
AfterExists_blind(exists) == "b_tar"

\* lines 127-130: if (!exists) { warn; continue }
AfterExists(exists) == IF exists = "yes" THEN "b_tar" ELSE "skip"

\* lines 126-130: transfer.exists(sourcePath); a missing source is skipped
BackupExists ==
  /\ Running /\ pc = "b_exists"
  /\ LET f == getFoldersToBackup(BackupFlags)[loc.fi] IN
     \E r \in {"yes", "no", "threw"} :
       /\ log' = Append(log, Entry("exists", f, r))
       /\ CASE r # "threw" /\ AfterExists(r) = "b_tar" ->
                 /\ Stay("b_tar") /\ loc' = loc /\ msgs' = msgs
            [] r # "threw" /\ AfterExists(r) = "skip" ->
                 /\ msgs' = msgs \cup {"backup:skip"} \cup LeaveMsgs(loc.fi)
                 /\ Goto(NextFolder(loc.fi), "backup")
                 /\ loc' = [loc EXCEPT !.fi = @ + 1]
            [] OTHER ->
                 /\ Exit1 /\ loc' = loc /\ msgs' = msgs
  /\ UNCHANGED <<op, cfg, remote, localFiles>>

\* lines 132-145: the tar command of one category
BackupTar ==
  /\ Running /\ pc = "b_tar"
  /\ LET f == getFoldersToBackup(BackupFlags)[loc.fi] IN
     \E r \in ExecRes :
       /\ log' = Append(log, Entry("tar-c", f, r))
       /\ CASE r = "ok" ->
                 /\ Stay("b_du") /\ loc' = loc /\ msgs' = msgs
            [] r = "fail" ->
                 /\ msgs' = msgs \cup {"backup:failed"} \cup LeaveMsgs(loc.fi)
                 /\ Goto(NextFolder(loc.fi), "backup")
                 /\ loc' = [loc EXCEPT !.fi = @ + 1]
            [] OTHER ->
                 /\ Exit1 /\ loc' = loc /\ msgs' = msgs
  /\ UNCHANGED <<op, cfg, remote, localFiles>>

\* lines 147-149: du -h of the new archive; its exit code is not looked at
BackupDu ==
  /\ Running /\ pc = "b_du"
  /\ LET f == getFoldersToBackup(BackupFlags)[loc.fi] IN
     \E r \in ExecRes :
       /\ log' = Append(log, Entry("du", f, r))
       /\ IF r = "threw"
            THEN /\ Exit1 /\ loc' = loc /\ msgs' = msgs
            ELSE /\ msgs' = msgs \cup {"backup:created"} \cup LeaveMsgs(loc.fi)
                 /\ Goto(NextFolder(loc.fi), "backup")
                 /\ loc' = [loc EXCEPT !.fi = @ + 1]
  /\ UNCHANGED <<op, cfg, remote, localFiles>>

\* lines 169-185: SHOW TABLES LIKE '<prefix>%'; the dump is narrowed to the
\* listed tables only when the listing succeeds and is not empty
BackupTables ==
  /\ Running /\ pc = "b_tables"
  /\ \E r \in {"some", "none", "fail", "threw"} :
       /\ log' = Append(log, DbEntry("show-tables", cfg.prefix, r,
                                     hostArgs(cfg.socket)))
       /\ CASE r = "some" ->
                 /\ Stay("b_dump") /\ msgs' = msgs \cup {"backup:tables-found"}
                 /\ loc' = [loc EXCEPT !.filter = "filtered"]
            [] r = "none" ->
                 /\ Stay("b_dump") /\ msgs' = msgs \cup {"backup:no-tables"}
                 /\ loc' = loc
            [] r = "fail" ->
                 /\ Stay("b_dump") /\ msgs' = msgs \cup {"backup:tables-failed"}
                 /\ loc' = loc
            [] OTHER ->
                 /\ Exit1 /\ msgs' = msgs /\ loc' = loc
  /\ UNCHANGED <<op, cfg, remote, localFiles>>

\* lines 187-193: mysqldump > database.sql && tar && rm, as one command
BackupDump ==
  /\ Running /\ pc = "b_dump"
  /\ \E r \in ExecRes :
       /\ log' = Append(log, DbEntry("mysqldump", loc.filter, r,
                                     hostArgs(cfg.socket)))
       /\ CASE r = "ok" ->
                 /\ Stay("b_dbdu") /\ msgs' = msgs
            [] r = "fail" ->
                 /\ Finally("backup")
                 /\ msgs' = msgs \cup {"backup:db-failed", "backup:complete"}
            [] OTHER ->
                 /\ Exit1 /\ msgs' = msgs
  /\ UNCHANGED <<op, cfg, remote, localFiles, loc>>

\* lines 195-202: du -h of the database archive, then "Backup complete"
BackupDbDu ==
  /\ Running /\ pc = "b_dbdu"
  /\ \E r \in ExecRes :
       /\ log' = Append(log, Entry("du", "database", r))
       /\ IF r = "threw"
            THEN /\ Exit1 /\ msgs' = msgs
            ELSE /\ Finally("backup")
                 /\ msgs' = msgs \cup {"backup:db-created", "backup:complete"}
  /\ UNCHANGED <<op, cfg, remote, localFiles, loc>>

runBackup ==
  \/ BackupStart \/ BackupConnect \/ BackupMkdir \/ BackupExists
  \/ BackupTar \/ BackupDu \/ BackupTables \/ BackupDump \/ BackupDbDu

-----------------------------------------------------------------------------
(* runUpload: archive-based upload with pre-upload backup *)

\* position after the archive was extracted (or its leftover removed) and
\* the local archive unlinked: the ownership probe when a files owner is
\* configured, else the end of the try block
AfterExtract == IF cfg.filesOwner THEN "u_chk" ELSE "return"

\* an upload that only skips environments without SSH settings
IsLocalTarget_sshOnly(c) == ~c.hasSsh

\* line 84: environment === 'local' || !envConfig.ssh (the environments are
\* keyed by their kind; src/commands/upload.ts line 69 tests
\* envConfig.type === 'local')
IsLocalTarget(c) == c.isLocal \/ ~c.hasSsh

\* lines 24-107: checks, dry run, local redirect, pre-upload backup
UploadStart ==
  /\ Running /\ pc = "u_start"
  /\ UNCHANGED <<op, cfg, remote, log, localFiles, loc>>
  /\ IF ~cfg.cmsOk
       THEN /\ msgs' = msgs \cup {"upload:no-cms"} /\ Exit1
       ELSE IF ~cfg.hasFiles
         THEN /\ msgs' = msgs \cup {"upload:no-files"} /\ Return0
         ELSE IF cfg.dryRun
           THEN /\ msgs' = msgs \cup {"upload:dry-run"} /\ Return0
           ELSE IF IsLocalTarget(cfg)
             THEN /\ msgs' = msgs \cup {"upload:local-copy"} /\ Return0
             ELSE IF cfg.backup
               THEN /\ msgs' = msgs \cup {"upload:backup-first"}
                    /\ Stay("b_start")
               ELSE /\ msgs' = msgs \cup {"upload:backup-skipped"}
                    /\ Stay("u_connect")

\* lines 110-116: new SSHTransfer(envConfig); await transfer.connect()
UploadConnect ==
  /\ Running /\ pc = "u_connect"
  /\ \E r \in ConnectRes :
       /\ sess' = [sess EXCEPT !["main"] = connect(SSHTransfer, r)]
       /\ IF r = "ok"
            THEN pc' = "u_tar" /\ UNCHANGED <<proc, exitCode>>
            ELSE pc' = "end" /\ proc' = "exited" /\ exitCode' = 1
  /\ UNCHANGED <<op, cfg, remote, log, msgs, localFiles, loc>>

\* lines 118-173: the local tar command; when it fails the process exits at
\* once and whatever tar already wrote stays behind
UploadTar ==
  /\ Running /\ pc = "u_tar"
  /\ \E r \in {"ok", "threw"} :
       /\ log' = Append(log, Entry("local-tar", "archive", r))
       /\ IF r = "ok"
            THEN /\ localFiles' = localFiles \cup {"archive"}
                 /\ Stay("u_put")
            ELSE /\ \E partial \in BOOLEAN :
                      localFiles' = IF partial THEN localFiles \cup {"archive"}
                                    ELSE localFiles
                 /\ Exit1
  /\ UNCHANGED <<op, cfg, remote, msgs, loc>>

\* lines 175-178: transfer.uploadFile(localArchivePath, remoteArchivePath)
UploadPut ==
  /\ Running /\ pc = "u_put"
  /\ \E r \in {"ok", "threw"} :
       /\ log' = Append(log, Entry("put", "archive", r))
       /\ Goto(IF r = "ok" THEN "u_extract" ELSE "exit1", "main")
  /\ UNCHANGED <<op, cfg, remote, msgs, localFiles, loc>>

\* lines 180-196: tar -xzf && rm on the server; after a clean extraction the
\* local archive is unlinked and the upload is reported complete
UploadExtract ==
  /\ Running /\ pc = "u_extract"
  /\ \E r \in ExecRes :
       /\ log' = Append(log, Entry("tar-x", "archive", r))
       /\ remote' \in (IF r = "threw" THEN {remote} ELSE Extracted(remote))
       /\ CASE r = "ok" ->
                 /\ msgs' = msgs \cup {"upload:extracted", "upload:complete"}
                 /\ localFiles' = localFiles \ {"archive"}
                 /\ Goto(AfterExtract, "main")
            [] r = "fail" ->
                 /\ msgs' = msgs \cup {"upload:extract-failed"}
                 /\ localFiles' = localFiles
                 /\ Stay("u_rmarchive")
            [] OTHER ->
                 /\ msgs' = msgs /\ localFiles' = localFiles /\ Exit1
  /\ UNCHANGED <<op, cfg, loc>>

\* lines 186-196: rm -f of the remote archive after a failed extraction,
\* then the same unlink and "Upload complete!" as on the clean path
UploadRmArchive ==
  /\ Running /\ pc = "u_rmarchive"
  /\ \E r \in ExecRes :
       /\ log' = Append(log, Entry("rm", "archive", r))
       /\ IF r = "threw"
            THEN /\ msgs' = msgs /\ localFiles' = localFiles /\ Exit1
            ELSE /\ msgs' = msgs \cup {"upload:complete"}
                 /\ localFiles' = localFiles \ {"archive"}
                 /\ Goto(AfterExtract, "main")
  /\ UNCHANGED <<op, cfg, remote, loc>>

\* lines 198-209: find ... ! -user <owner> | head -1; only stdout is read
UploadCheckOwner ==
  /\ Running /\ pc = "u_chk"
  /\ \E threw \in BOOLEAN :
       LET r == IF threw THEN "threw"
                ELSE IF hasWrongOwner(remote) THEN "wrong" ELSE "clean" IN
       /\ log' = Append(log, Entry("find-owner", "root", r))
       /\ CASE threw -> msgs' = msgs /\ Exit1
            [] ~threw /\ AfterCheckOwner(hasWrongOwner(remote)) = "chown" ->
                 msgs' = msgs /\ Stay("u_chown")
            [] OTHER ->
                 msgs' = msgs \cup {"owner:already"} /\ Finally("main")
  /\ UNCHANGED <<op, cfg, remote, localFiles, loc>>

\* lines 211-222: find ... -mindepth 1 -exec chown; failure is a warning
UploadChown ==
  /\ Running /\ pc = "u_chown"
  /\ \E r \in ExecRes :
       /\ log' = Append(log, Entry("chown", "root", r))
       /\ remote' \in Chowned(remote, r)
       /\ msgs' = msgs \cup (CASE r = "ok"   -> {"owner:updated"}
                               [] r = "fail" -> {"owner:warning"}
                               [] OTHER      -> {})
       /\ Goto(AfterChown(r), "main")
  /\ UNCHANGED <<op, cfg, localFiles, loc>>

runUpload ==
  \/ UploadStart \/ UploadConnect \/ UploadTar \/ UploadPut \/ UploadExtract
  \/ UploadRmArchive \/ UploadCheckOwner \/ UploadChown

-----------------------------------------------------------------------------
(* uploadDatabase: database migration from a local to a remote environment *)

\* WP_URL_REPLACE_QUERIES: the fixed UPDATE statements, as table:column
WP_URL_REPLACE_QUERIES ==
  << "options:option_value", "posts:guid", "posts:post_content",
     "postmeta:meta_value", "comments:comment_content",
     "comments:comment_author_url", "termmeta:meta_value" >>

\* line 501: targetDb.tablePrefix || sourceDb.tablePrefix || 'wp_'
tablePrefix(target, source) ==
  IF target # "" THEN target ELSE IF source # "" THEN source ELSE "wp_"

\* the catch block of uploadDatabase (lines 622-627): unlink the local dump,
\* then process.exit(1)
DbCatch ==
  /\ localFiles' = localFiles \ {"dump"}
  /\ Exit1

\* a pre-migration backup whose failure stops the migration
AfterTargetBackup_fatal(r) == IF r = "ok" THEN "d_dumplocal" ELSE "catch"

\* lines 553-560: a non-zero exit of the backup command is logged only
AfterTargetBackup(r) == IF r = "threw" THEN "catch" ELSE "d_dumplocal"

\* an import whose exit code is not looked at
AfterImport_unchecked(r) == IF r = "threw" THEN "catch" ELSE "d_update"

\* lines 587-596: a non-zero exit of the import leads to the cleanup and
\* process.exit(1), a zero exit to the URL replacement
AfterImport(r) ==
  CASE r = "ok"   -> "d_update"
    [] r = "fail" -> "d_rmfail"
    [] OTHER      -> "catch"

\* a counter that counts every statement
CountSuccess_all(n, r) == n + 1

\* lines 608-610: if (result.code === 0) successCount++
CountSuccess(n, r) == IF r = "ok" THEN n + 1 ELSE n

\* lines 481-523: configuration checks, dry run, construction of the session
DbStart ==
  /\ Running /\ pc = "d_start"
  /\ UNCHANGED <<op, cfg, remote, log, localFiles, loc>>
  /\ IF ~cfg.hasSrcDb
       THEN /\ msgs' = msgs \cup {"db:no-source-db"} /\ Exit1
       ELSE IF ~cfg.hasDb
         THEN /\ msgs' = msgs \cup {"db:no-target-db"} /\ Exit1
         ELSE IF noSsh(cfg)
           THEN /\ msgs' = msgs \cup {"db:no-ssh"} /\ Exit1
           ELSE IF cfg.dryRun
             THEN /\ msgs' = msgs \cup {"db:dry-run"} /\ Return0
             ELSE /\ msgs' = msgs
                  /\ sess' = [sess EXCEPT !["main"] = SSHTransfer]
                  /\ pc' = "d_connect"
                  /\ UNCHANGED <<proc, exitCode>>

\* lines 525-526, 529, 562
DbConnect ==
  /\ Running /\ pc = "d_connect"
  /\ \E r \in ConnectRes :
       /\ sess' = [sess EXCEPT !["main"] = connect(@, r)]
       /\ IF r = "ok"
            THEN /\ pc' = IF cfg.skipBackup THEN "d_dumplocal" ELSE "d_mkdir"
                 /\ msgs' = IF cfg.skipBackup THEN msgs \cup {"db:backup-skipped"}
                            ELSE msgs
                 /\ UNCHANGED <<proc, exitCode>>
            ELSE /\ pc' = "end" /\ proc' = "exited" /\ exitCode' = 1
                 /\ msgs' = msgs
  /\ UNCHANGED <<op, cfg, remote, log, localFiles, loc>>

\* lines 530-541: mkdir -p of the backups directory; its exit code is not
\* looked at
DbMkdir ==
  /\ Running /\ pc = "d_mkdir"
  /\ \E r \in ExecRes :
       /\ log' = Append(log, Entry("mkdir", "backups", r))
       /\ IF r = "threw"
            THEN DbCatch
            ELSE /\ Stay(IF tablePrefix(cfg.prefix, cfg.srcPrefix) # ""
                            THEN "d_tables" ELSE "d_bdump")
                 /\ localFiles' = localFiles
  /\ loc' = [loc EXCEPT !.filter = "full"]
  /\ UNCHANGED <<op, cfg, remote, msgs>>

\* lines 541-550: SHOW TABLES LIKE on the target
DbTables ==
  /\ Running /\ pc = "d_tables"
  /\ \E r \in {"some", "none", "fail", "threw"} :
       /\ log' = Append(log, DbEntry("show-tables",
                                     tablePrefix(cfg.prefix, cfg.srcPrefix), r,
                                     hostArgs(cfg.socket)))
       /\ IF r = "threw"
            THEN DbCatch /\ loc' = loc
            ELSE /\ Stay("d_bdump")
                 /\ localFiles' = localFiles
                 /\ loc' = [loc EXCEPT !.filter = IF r = "some" THEN "filtered"
                                                  ELSE "full"]
  /\ UNCHANGED <<op, cfg, remote, msgs>>

\* lines 552-560: the dump-and-archive command of the pre-migration backup
DbTargetBackup ==
  /\ Running /\ pc = "d_bdump"
  /\ \E r \in ExecRes :
       /\ log' = Append(log, DbEntry("mysqldump", loc.filter, r,
                                     hostArgs(cfg.socket)))
       /\ IF AfterTargetBackup(r) = "catch"
            THEN DbCatch /\ msgs' = msgs
            ELSE /\ Stay(AfterTargetBackup(r))
                 /\ localFiles' = localFiles
                 /\ msgs' = msgs \cup (IF r = "ok" THEN {"db:backup-created"}
                                       ELSE {"db:backup-failed"})
  /\ UNCHANGED <<op, cfg, remote, loc>>

\* lines 565-576 and dumpLocalDatabase (419-470): listing error, no tables,
\* dump error (the shell redirection may already have created the file),
\* or success; any failure is process.exit(1) inside the try block
DbDumpLocal ==
  /\ Running /\ pc = "d_dumplocal"
  /\ \E r \in {"ok", "tablesErr", "noTables", "dumpErr"} :
       /\ log' = Append(log, DbEntry("local-dump", "dump", r,
                                     buildMysqlConnectionArgs(cfg.srcSocket)))
       /\ CASE r = "ok" ->
                 /\ localFiles' = localFiles \cup {"dump"}
                 /\ msgs' = msgs
                 /\ Stay("d_put")
            [] r = "dumpErr" ->
                 /\ \E partial \in BOOLEAN :
                      localFiles' = IF partial THEN localFiles \cup {"dump"}
                                    ELSE localFiles
                 /\ msgs' = msgs \cup {"db:dump-failed"}
                 /\ Exit1
            [] OTHER ->
                 /\ localFiles' = localFiles
                 /\ msgs' = msgs \cup {"db:dump-failed"}
                 /\ Exit1
  /\ UNCHANGED <<op, cfg, remote, loc>>

\* lines 578-582: transfer.uploadFile(localDumpPath, remoteDumpPath)
DbPut ==
  /\ Running /\ pc = "d_put"
  /\ \E r \in {"ok", "threw"} :
       /\ log' = Append(log, Entry("put", "dump", r))
       /\ IF r = "ok"
            THEN Stay("d_import") /\ localFiles' = localFiles
            ELSE DbCatch
  /\ UNCHANGED <<op, cfg, remote, msgs, loc>>

\* lines 584-596: mysql < remote dump
DbImport ==
  /\ Running /\ pc = "d_import"
  /\ \E r \in ExecRes :
       /\ log' = Append(log, DbEntry("import", "dump", r,
                                     hostArgs(cfg.socket)))
       /\ IF AfterImport(r) = "catch"
            THEN DbCatch /\ msgs' = msgs
            ELSE /\ Stay(AfterImport(r))
                 /\ localFiles' = localFiles
                 /\ msgs' = msgs \cup (IF r = "ok" THEN {"db:imported"}
                                       ELSE {"db:import-failed"})
  /\ loc' = [loc EXCEPT !.qi = 1, !.successCount = 0]
  /\ UNCHANGED <<op, cfg, remote>>

\* lines 589-595: after a failed import: rm -f of the remote dump, unlink of
\* the local dump, process.exit(1)
DbRmAfterFailedImport ==
  /\ Running /\ pc = "d_rmfail"
  /\ \E r \in ExecRes :
       /\ log' = Append(log, Entry("rm", "dump", r))
       /\ DbCatch
  /\ UNCHANGED <<op, cfg, remote, msgs, loc>>

\* lines 605-613: one UPDATE statement of the fixed list per step
DbUpdate ==
  /\ Running /\ pc = "d_update"
  /\ \E r \in ExecRes :
       /\ log' = Append(log, DbEntry("update", WP_URL_REPLACE_QUERIES[loc.qi],
                                     r, hostArgs(cfg.socket)))
       /\ IF r = "threw"
            THEN DbCatch /\ loc' = loc /\ msgs' = msgs
            ELSE /\ loc' = [loc EXCEPT !.qi = @ + 1,
                                       !.successCount = CountSuccess(@, r)]
                 /\ localFiles' = localFiles
                 /\ IF loc.qi < Len(WP_URL_REPLACE_QUERIES)
                      THEN Stay("d_update") /\ msgs' = msgs
                      ELSE Stay("d_rmdump") /\ msgs' = msgs \cup {"db:updated"}
  /\ UNCHANGED <<op, cfg, remote>>

\* lines 615-621: rm -f of the remote dump, unlink of the local dump
DbRmDump ==
  /\ Running /\ pc = "d_rmdump"
  /\ \E r \in ExecRes :
       /\ log' = Append(log, Entry("rm", "dump", r))
       /\ IF r = "threw"
            THEN DbCatch /\ msgs' = msgs
            ELSE /\ localFiles' = localFiles \ {"dump"}
                 /\ msgs' = msgs \cup {"db:complete"}
                 /\ Finally("main")
  /\ UNCHANGED <<op, cfg, remote, loc>>

uploadDatabase ==
  \/ DbStart \/ DbConnect \/ DbMkdir \/ DbTables \/ DbTargetBackup
  \/ DbDumpLocal \/ DbPut \/ DbImport \/ DbRmAfterFailedImport
  \/ DbUpdate \/ DbRmDump

-----------------------------------------------------------------------------
(* restoreBackup: src/commands/backup.ts *)

\* typed answers, as character sequences
Yes == <<"y", "e", "s">>
Answers ==
  { Yes, <<"Y", "E", "S">>, <<"Y", "e", "s">>, <<"n", "o">>, <<"y">>, <<>>,
    <<" ", "y", "e", "s">> }

\* a confirmation that only refuses the answer "no"
IsConfirmed_unlessNo(answer) == toLowerCase(answer) # <<"n", "o">>

\* lines 576-580: answer.toLowerCase() !== 'yes' cancels
IsConfirmed(answer) == toLowerCase(answer) = Yes

\* line 534 of uploadDatabase: the name of the pre-migration backup archive
preUploadBackupName ==
  <<"ts", "-", "database", "-", "pre", "-", "upload", ".", "tar", ".", "gz">>

\* a classification by the word database anywhere in the name
isDatabase_byWord(name) == includes(name, <<"database">>)

\* line 524: backup.name.includes('-database.')
isDatabase(name) == includes(name, <<"-", "database", ".">>)

\* getBackupsList (lines 259-279): the listed names, without repetition
Listings ==
  LET
    \* archive names a listing of the backups directory may show
    ArchiveNames ==
      { generateBackupName("themes"), generateBackupName("database"),
        preUploadBackupName }
  IN
    UNION { { l \in [1..n -> ArchiveNames] :
                \A i, j \in 1..n : i # j => l[i] # l[j] } : n \in 1..MaxBackups }

\* a rejection inside the async onSelect callback is not caught by the
\* enclosing try: the awaited promise is never resolved.  The runtime either
\* ends the process on the unhandled rejection or only warns and waits.
Unhandled ==
  /\ pc' = "end"
  /\ sess' = sess
  /\ \E o \in {"exited", "hung"} :
       /\ proc' = o
       /\ exitCode' = IF o = "exited" THEN 1 ELSE exitCode

\* lines 483-500
RestoreStart ==
  /\ Running /\ pc = "r_start"
  /\ UNCHANGED <<op, cfg, remote, log, localFiles, loc>>
  /\ IF noSsh(cfg)
       THEN /\ msgs' = msgs \cup {"restore:remote-only"} /\ Exit1
       ELSE /\ msgs' = msgs
            /\ sess' = [sess EXCEPT !["main"] = SSHTransfer]
            /\ pc' = "r_connect"
            /\ UNCHANGED <<proc, exitCode>>

\* line 503
RestoreConnect ==
  /\ Running /\ pc = "r_connect"
  /\ \E r \in ConnectRes :
       /\ sess' = [sess EXCEPT !["main"] = connect(@, r)]
       /\ IF r = "ok"
            THEN pc' = "r_list" /\ UNCHANGED <<proc, exitCode>>
            ELSE pc' = "end" /\ proc' = "exited" /\ exitCode' = 1
  /\ UNCHANGED <<op, cfg, remote, log, msgs, localFiles, loc>>

\* lines 506-512 and getBackupsList: a failed or empty listing is "no backups"
RestoreList ==
  /\ Running /\ pc = "r_list"
  /\ \E r \in ExecRes, l \in Listings \cup {<<>>} :
       /\ r # "ok" => l = <<>>
       /\ log' = Append(log, Entry("ls", "backups", r))
       /\ CASE r = "threw" ->
                 /\ Exit1 /\ msgs' = msgs /\ loc' = loc
            [] r # "threw" /\ l = <<>> ->
                 /\ Finally("main")
                 /\ msgs' = msgs \cup {"restore:none"}
                 /\ loc' = loc
            [] OTHER ->
                 /\ Stay("r_select") /\ msgs' = msgs
                 /\ loc' = [loc EXCEPT !.backups = l]
  /\ UNCHANGED <<op, cfg, remote, localFiles>>

\* a restore that asks for confirmation even in a dry run
AfterSelect_confirm(dryRun) == "r_confirm"

\* lines 526, 551: if (dryRun) { list the contents; resolve(); return }
AfterSelect(dryRun) == IF dryRun THEN "r_tlist" ELSE "r_confirm"

\* lines 515-551, 655-659: the single selection, or its cancellation
RestoreSelect ==
  /\ Running /\ pc = "r_select"
  /\ \/ /\ msgs' = msgs \cup {"restore:cancelled"}
        /\ Finally("main")
        /\ loc' = loc
     \/ \E i \in 1..Len(loc.backups) :
          /\ loc' = [loc EXCEPT !.selected = loc.backups[i]]
          /\ msgs' = IF cfg.dryRun THEN msgs \cup {"restore:dry-run"} ELSE msgs
          /\ Stay(AfterSelect(cfg.dryRun))
  /\ UNCHANGED <<op, cfg, remote, log, localFiles>>

\* lines 537-550: dry run lists the archive contents
RestoreDryList ==
  /\ Running /\ pc = "r_tlist"
  /\ \E r \in ExecRes :
       /\ log' = Append(log, Entry("tar-t", "selected", r))
       /\ IF r = "threw" THEN Unhandled ELSE Finally("main")
  /\ UNCHANGED <<op, cfg, remote, msgs, localFiles, loc>>

\* lines 564-591: the typed confirmation and the dispatch on the archive kind
RestoreConfirm ==
  /\ Running /\ pc = "r_confirm"
  /\ \E a \in Answers :
       /\ loc' = [loc EXCEPT !.answer = a]
       /\ IF ~IsConfirmed(a)
            THEN /\ msgs' = msgs \cup {"restore:cancelled"}
                 /\ Finally("main")
            ELSE IF isDatabase(loc.selected)
              THEN IF ~cfg.hasDb
                     THEN /\ msgs' = msgs \cup {"restore:no-db-config"}
                          /\ Finally("main")
                     ELSE /\ msgs' = msgs /\ Stay("r_dbextract")
              ELSE /\ msgs' = msgs /\ Stay("r_extract")
  /\ UNCHANGED <<op, cfg, remote, log, localFiles>>

\* lines 593-602: mkdir -p .temp && tar -xzf -C .temp; on a non-zero exit
\* the callback resolves at once
RestoreDbExtract ==
  /\ Running /\ pc = "r_dbextract"
  /\ \E r \in ExecRes :
       /\ log' = Append(log, Entry("tar-x-temp", "selected", r))
       /\ CASE r = "ok"   -> msgs' = msgs /\ Stay("r_import")
            [] r = "fail" -> /\ msgs' = msgs \cup {"restore:extract-failed"}
                             /\ Finally("main")
            [] OTHER       -> msgs' = msgs /\ Unhandled
  /\ UNCHANGED <<op, cfg, remote, localFiles, loc>>

\* lines 604-606: mysql < .temp/database.sql
RestoreImport ==
  /\ Running /\ pc = "r_import"
  /\ \E r \in ExecRes :
       /\ log' = Append(log, DbEntry("import", "temp", r,
                                     hostArgs(cfg.socket)))
       /\ IF r = "threw" THEN Unhandled ELSE Stay("r_rmtemp")
  /\ UNCHANGED <<op, cfg, remote, msgs, localFiles, loc>>

\* lines 608-615: rm -rf .temp, then the report of the import outcome
RestoreRmTemp ==
  /\ Running /\ pc = "r_rmtemp"
  /\ \E r \in ExecRes :
       /\ log' = Append(log, Entry("rm", "temp", r))
       /\ IF r = "threw"
            THEN msgs' = msgs /\ Unhandled
            ELSE /\ msgs' = msgs \cup (IF log[Len(log)].res = "ok"
                                         THEN {"restore:db-restored"}
                                         ELSE {"restore:db-failed"})
                 /\ Finally("main")
  /\ UNCHANGED <<op, cfg, remote, localFiles, loc>>

\* lines 617-629: tar -xzf at the remote root
RestoreExtract ==
  /\ Running /\ pc = "r_extract"
  /\ \E r \in ExecRes :
       /\ log' = Append(log, Entry("tar-x", "selected", r))
       /\ remote' \in (IF r = "threw" THEN {remote} ELSE Extracted(remote))
       /\ CASE r = "ok" ->
                 /\ msgs' = msgs \cup {"restore:restored"}
                 /\ IF cfg.filesOwner THEN Stay("r_chk") ELSE Finally("main")
            [] r = "fail" ->
                 /\ msgs' = msgs \cup {"restore:failed"}
                 /\ Finally("main")
            [] OTHER ->
                 /\ msgs' = msgs /\ Unhandled
  /\ UNCHANGED <<op, cfg, localFiles, loc>>

\* lines 630-637
RestoreCheckOwner ==
  /\ Running /\ pc = "r_chk"
  /\ \E threw \in BOOLEAN :
       LET r == IF threw THEN "threw"
                ELSE IF hasWrongOwner(remote) THEN "wrong" ELSE "clean" IN
       /\ log' = Append(log, Entry("find-owner", "root", r))
       /\ CASE threw -> msgs' = msgs /\ Unhandled
            [] ~threw /\ AfterCheckOwner(hasWrongOwner(remote)) = "chown" ->
                 msgs' = msgs /\ Stay("r_chown")
            [] OTHER ->
                 msgs' = msgs \cup {"owner:already"} /\ Finally("main")
  /\ UNCHANGED <<op, cfg, remote, localFiles, loc>>

\* lines 639-649
RestoreChown ==
  /\ Running /\ pc = "r_chown"
  /\ \E r \in ExecRes :
       /\ log' = Append(log, Entry("chown", "root", r))
       /\ remote' \in Chowned(remote, r)
       /\ msgs' = msgs \cup (CASE r = "ok"   -> {"owner:updated"}
                               [] r = "fail" -> {"owner:warning"}
                               [] OTHER      -> {})
       /\ IF r = "threw" THEN Unhandled ELSE Goto(AfterChown(r), "main")
  /\ UNCHANGED <<op, cfg, localFiles, loc>>

restoreBackup ==
  \/ RestoreStart \/ RestoreConnect \/ RestoreList \/ RestoreSelect
  \/ RestoreDryList \/ RestoreConfirm \/ RestoreDbExtract \/ RestoreImport
  \/ RestoreRmTemp \/ RestoreExtract \/ RestoreCheckOwner \/ RestoreChown

-----------------------------------------------------------------------------
(* listBackups, deleteBackups, downloadBackups: src/commands/backup.ts *)

\* how a command names one backup file of the listing
fileLabel(name) ==
  IF name = preUploadBackupName THEN "database-pre-upload" ELSE name[3]

\* BackupSelector in multi-select mode: the toggled entries, in the order
\* they were toggled; confirming an empty selection is a cancellation
Selections(backups) ==
  UNION { { [i \in 1..n |-> backups[f[i]]] :
              f \in {g \in [1..n -> DOMAIN backups] :
                       \A i, j \in 1..n : i # j => g[i] # g[j]} } :
          n \in 1..Len(backups) }

listBackups ==
  LET
    \* lines 215-227
    ListStart ==
      /\ Running /\ pc = "l_start"
      /\ UNCHANGED <<op, cfg, remote, log, localFiles, loc>>
      /\ IF noSsh(cfg)
           THEN /\ msgs' = msgs \cup {"list:remote-only"} /\ Exit1
           ELSE /\ msgs' = msgs
                /\ sess' = [sess EXCEPT !["main"] = SSHTransfer]
                /\ pc' = "l_connect"
                /\ UNCHANGED <<proc, exitCode>>

    \* line 230
    ListConnect ==
      /\ Running /\ pc = "l_connect"
      /\ \E r \in ConnectRes :
           /\ sess' = [sess EXCEPT !["main"] = connect(@, r)]
           /\ IF r = "ok"
                THEN pc' = "l_ls" /\ UNCHANGED <<proc, exitCode>>
                ELSE pc' = "end" /\ proc' = "exited" /\ exitCode' = 1
      /\ UNCHANGED <<op, cfg, remote, log, msgs, localFiles, loc>>

    \* lines 232-246: ls of the backups directory and the printed list
    ListLs ==
      /\ Running /\ pc = "l_ls"
      /\ \E r \in ExecRes, l \in Listings \cup {<<>>} :
           /\ r # "ok" => l = <<>>
           /\ log' = Append(log, Entry("ls", "backups", r))
           /\ IF r = "threw"
                THEN Exit1 /\ msgs' = msgs /\ loc' = loc
                ELSE /\ Finally("main")
                     /\ msgs' = msgs \cup (IF l = <<>> THEN {"list:none"}
                                           ELSE {"list:found"})
                     /\ loc' = [loc EXCEPT !.backups = l]
      /\ UNCHANGED <<op, cfg, remote, localFiles>>
  IN
    ListStart \/ ListConnect \/ ListLs

\* lines 284-301
DeleteStart ==
  /\ Running /\ pc = "x_start"
  /\ UNCHANGED <<op, cfg, remote, log, localFiles, loc>>
  /\ IF noSsh(cfg)
       THEN /\ msgs' = msgs \cup {"delete:remote-only"} /\ Exit1
       ELSE /\ msgs' = msgs
            /\ sess' = [sess EXCEPT !["main"] = SSHTransfer]
            /\ pc' = "x_connect"
            /\ UNCHANGED <<proc, exitCode>>

\* line 304
DeleteConnect ==
  /\ Running /\ pc = "x_connect"
  /\ \E r \in ConnectRes :
       /\ sess' = [sess EXCEPT !["main"] = connect(@, r)]
       /\ IF r = "ok"
            THEN pc' = "x_list" /\ UNCHANGED <<proc, exitCode>>
            ELSE pc' = "end" /\ proc' = "exited" /\ exitCode' = 1
  /\ UNCHANGED <<op, cfg, remote, log, msgs, localFiles, loc>>

\* lines 307-313 and getBackupsList
DeleteList ==
  /\ Running /\ pc = "x_list"
  /\ \E r \in ExecRes, l \in Listings \cup {<<>>} :
       /\ r # "ok" => l = <<>>
       /\ log' = Append(log, Entry("ls", "backups", r))
       /\ CASE r = "threw" ->
                 /\ Exit1 /\ msgs' = msgs /\ loc' = loc
            [] r # "threw" /\ l = <<>> ->
                 /\ Finally("main")
                 /\ msgs' = msgs \cup {"delete:none"}
                 /\ loc' = loc
            [] OTHER ->
                 /\ Stay(IF "all" \in cfg.flags THEN "x_confirm" ELSE "x_select")
                 /\ msgs' = msgs
                 /\ loc' = [loc EXCEPT !.backups = l]
  /\ UNCHANGED <<op, cfg, remote, localFiles>>

\* a delete-all that does not look at the answer
AfterDeleteAnswer_any(answer) == "x_rm"

\* lines 333-336: any answer but yes (in any letter case) returns
AfterDeleteAnswer(answer) == IF IsConfirmed(answer) THEN "x_rm" ELSE "return"

\* lines 315-336: delete-all mode, the typed confirmation
DeleteConfirm ==
  /\ Running /\ pc = "x_confirm"
  /\ \E a \in Answers :
       IF AfterDeleteAnswer(a) = "return"
         THEN /\ msgs' = msgs \cup {"delete:cancelled"}
              /\ Finally("main")
              /\ loc' = [loc EXCEPT !.answer = a]
         ELSE /\ msgs' = msgs
              /\ Stay("x_rm")
              /\ loc' = [loc EXCEPT !.answer = a, !.chosen = loc.backups,
                                     !.di = 1]
  /\ UNCHANGED <<op, cfg, remote, log, localFiles>>

\* lines 349-375: interactive mode, the multi-selection or its cancellation
DeleteSelect ==
  /\ Running /\ pc = "x_select"
  /\ \/ /\ msgs' = msgs \cup {"delete:cancelled"}
        /\ Finally("main")
        /\ loc' = loc
     \/ \E sel \in Selections(loc.backups) :
          /\ msgs' = msgs
          /\ Stay("x_rm")
          /\ loc' = [loc EXCEPT !.chosen = sel, !.di = 1]
  /\ UNCHANGED <<op, cfg, remote, log, localFiles>>

\* the line printed for one backup: its name and whether it succeeded
Report(name, r) == [name |-> fileLabel(name), ok |-> r = "ok"]

\* a loop that stops at the first backup that could not be removed
NextRemoval_stop(r, di, n) == IF r = "ok" /\ di < n THEN "x_rm" ELSE "return"

\* lines 340-347 and 360-367: the for loop goes on to the next backup
\* whatever the exit code was
NextRemoval(r, di, n) == IF di < n THEN "x_rm" ELSE "return"

\* lines 338-347 and 358-366: rm -f of one chosen backup per step; a
\* rejection is caught in delete-all mode and unhandled inside onSelect
DeleteRm ==
  /\ Running /\ pc = "x_rm"
  /\ \E r \in ExecRes :
       /\ log' = Append(log, Entry("rm-backup", fileLabel(loc.chosen[loc.di]), r))
       /\ IF r = "threw"
            THEN /\ msgs' = msgs /\ loc' = loc
                 /\ IF "all" \in cfg.flags THEN Exit1 ELSE Unhandled
            ELSE LET next == NextRemoval(r, loc.di, Len(loc.chosen)) IN
                 /\ msgs' = msgs \cup (IF r = "ok" THEN {"delete:deleted"}
                                       ELSE {"delete:failed"})
                                 \cup (IF next = "return" THEN {"delete:done"}
                                       ELSE {})
                 /\ loc' = [loc EXCEPT !.di = @ + 1,
                                        !.reports = Append(@, Report(loc.chosen[loc.di], r))]
                 /\ Goto(next, "main")
  /\ UNCHANGED <<op, cfg, remote, localFiles>>

deleteBackups ==
  DeleteStart \/ DeleteConnect \/ DeleteList \/ DeleteConfirm
    \/ DeleteSelect \/ DeleteRm

\* lines 394-412
GetStart ==
  /\ Running /\ pc = "g_start"
  /\ UNCHANGED <<op, cfg, remote, log, localFiles, loc>>
  /\ IF noSsh(cfg)
       THEN /\ msgs' = msgs \cup {"get:remote-only"} /\ Exit1
       ELSE /\ msgs' = msgs
            /\ sess' = [sess EXCEPT !["main"] = SSHTransfer]
            /\ pc' = "g_connect"
            /\ UNCHANGED <<proc, exitCode>>

\* line 415
GetConnect ==
  /\ Running /\ pc = "g_connect"
  /\ \E r \in ConnectRes :
       /\ sess' = [sess EXCEPT !["main"] = connect(@, r)]
       /\ IF r = "ok"
            THEN pc' = "g_list" /\ UNCHANGED <<proc, exitCode>>
            ELSE pc' = "end" /\ proc' = "exited" /\ exitCode' = 1
  /\ UNCHANGED <<op, cfg, remote, log, msgs, localFiles, loc>>

\* lines 418-424 and getBackupsList
GetList ==
  /\ Running /\ pc = "g_list"
  /\ \E r \in ExecRes, l \in Listings \cup {<<>>} :
       /\ r # "ok" => l = <<>>
       /\ log' = Append(log, Entry("ls", "backups", r))
       /\ CASE r = "threw" ->
                 /\ Exit1 /\ msgs' = msgs /\ loc' = loc
            [] r # "threw" /\ l = <<>> ->
                 /\ Finally("main")
                 /\ msgs' = msgs \cup {"get:none"}
                 /\ loc' = loc
            [] OTHER ->
                 /\ Stay("g_mkdir")
                 /\ msgs' = msgs
                 /\ loc' = [loc EXCEPT !.backups = l]
  /\ UNCHANGED <<op, cfg, remote, localFiles>>

\* lines 426-428, 448-449: fs.mkdir of the output directory; with --all the
\* whole listing is the chosen set
GetMkdir ==
  /\ Running /\ pc = "g_mkdir"
  /\ \E r \in {"ok", "threw"} :
       /\ log' = Append(log, Entry("local-mkdir", "output", r))
       /\ IF r = "threw"
            THEN Exit1 /\ loc' = loc
            ELSE IF "all" \in cfg.flags
              THEN /\ Stay("g_get")
                   /\ loc' = [loc EXCEPT !.chosen = loc.backups, !.di = 1]
              ELSE Stay("g_select") /\ loc' = loc
  /\ UNCHANGED <<op, cfg, remote, msgs, localFiles>>

\* lines 451-469: interactive mode
GetSelect ==
  /\ Running /\ pc = "g_select"
  /\ \/ /\ msgs' = msgs \cup {"get:cancelled"}
        /\ Finally("main")
        /\ loc' = loc
     \/ \E sel \in Selections(loc.backups) :
          /\ msgs' = msgs
          /\ Stay("g_get")
          /\ loc' = [loc EXCEPT !.chosen = sel, !.di = 1]
  /\ UNCHANGED <<op, cfg, remote, log, localFiles>>

\* a loop that gives up at the first transfer that failed
NextTransfer_stop(r, di, n) == IF r = "ok" /\ di < n THEN "g_get" ELSE "return"

\* lines 433-445: the try/catch is inside the for loop, which goes on to the
\* next backup after a failed transfer
NextTransfer(r, di, n) == IF di < n THEN "g_get" ELSE "return"

\* lines 430-446: downloadFile of one chosen backup per step; a rejection is
\* caught inside the loop
GetFile ==
  /\ Running /\ pc = "g_get"
  /\ \E r \in {"ok", "threw"} :
       LET next == NextTransfer(r, loc.di, Len(loc.chosen)) IN
       /\ log' = Append(log, Entry("get", fileLabel(loc.chosen[loc.di]), r))
       /\ loc' = [loc EXCEPT !.di = @ + 1,
                              !.reports = Append(@, Report(loc.chosen[loc.di], r))]
       /\ msgs' = msgs \cup (IF r = "ok" THEN {"get:downloaded"}
                             ELSE {"get:failed"})
                       \cup (IF next = "return" THEN {"get:done"} ELSE {})
       /\ Goto(next, "main")
  /\ UNCHANGED <<op, cfg, remote, localFiles>>

downloadBackups ==
  GetStart \/ GetConnect \/ GetList \/ GetMkdir \/ GetSelect \/ GetFile

-----------------------------------------------------------------------------
(* runDownload: src/commands/download.ts *)

\* one awaited remote command of the site download whose rejection lands in
\* the catch block: process.exit(1)
SiteStep(cmd, arg, results, next(_), said(_)) ==
  /\ \E r \in results \cup {"threw"} :
       /\ log' = Append(log,
                        IF cmd \in {"db-test", "mysqldump", "show-tables"}
                          THEN DbEntry(cmd, arg, r,
                                       buildMysqlConnectionArgs(cfg.socket))
                          ELSE Entry(cmd, arg, r))
       /\ msgs' = msgs \cup said(r)
       /\ Goto(IF r = "threw" THEN "exit1" ELSE next(r), "main")
  /\ UNCHANGED <<op, cfg, remote, localFiles, loc>>

\* the preferred tool whether or not the host has it
toolFor_preferred(check, preferred) == preferred

\* lines 223-235 and 269-287: the preferred tool when `command -v` printed
\* its path, tar otherwise
toolFor(check, preferred) == IF check = "found" THEN preferred ELSE "tar"

runDownload ==
  LET
    \* lines 48-64
    SiteStart ==
      /\ Running /\ pc = "s_start"
      /\ UNCHANGED <<op, cfg, remote, log, localFiles, loc>>
      /\ IF noSsh(cfg)
           THEN /\ msgs' = msgs \cup {"site:remote-only"} /\ Exit1
           ELSE /\ msgs' = msgs
                /\ sess' = [sess EXCEPT !["main"] = SSHTransfer]
                /\ pc' = "s_connect"
                /\ UNCHANGED <<proc, exitCode>>

    \* lines 67-69
    SiteConnect ==
      /\ Running /\ pc = "s_connect"
      /\ \E r \in ConnectRes :
           /\ sess' = [sess EXCEPT !["main"] = connect(@, r)]
           /\ IF r = "ok"
                THEN pc' = "s_mkdir" /\ UNCHANGED <<proc, exitCode>>
                ELSE pc' = "end" /\ proc' = "exited" /\ exitCode' = 1
      /\ UNCHANGED <<op, cfg, remote, log, msgs, localFiles, loc>>

    \* lines 71-82: mkdir -p of the backups and temporary directories; the exit
    \* code is not looked at
    SiteMkdir ==
      /\ Running /\ pc = "s_mkdir"
      /\ SiteStep("mkdir", "tmp", {"ok", "fail"},
                    LAMBDA r : IF cfg.hasDb THEN "s_dbtest" ELSE "s_rsync",
                    LAMBDA r : IF cfg.hasDb \/ r = "threw" THEN {} ELSE {"site:no-db"})

    \* lines 85-105: SELECT 1 against the database; failure is process.exit(1)
    SiteDbTest ==
      /\ Running /\ pc = "s_dbtest"
      /\ SiteStep("db-test", "db", {"ok", "fail"},
                    LAMBDA r : IF r = "ok" THEN "s_dump" ELSE "exit1",
                    LAMBDA r : IF r = "fail" THEN {"site:db-test-failed"} ELSE {})

    \* lines 107-121
    SiteDump ==
      /\ Running /\ pc = "s_dump"
      /\ SiteStep("mysqldump", "raw", {"ok", "fail"},
                    LAMBDA r : IF r = "ok" THEN "s_dumpcheck" ELSE "exit1",
                    LAMBDA r : IF r = "fail" THEN {"site:dump-failed"} ELSE {})

    \* lines 123-130: [ -s database_raw.sql ]
    SiteDumpCheck ==
      /\ Running /\ pc = "s_dumpcheck"
      /\ SiteStep("test-s", "raw", {"has_content", "empty"},
                    LAMBDA r : IF r = "has_content" THEN "s_tables" ELSE "exit1",
                    LAMBDA r : IF r = "empty" THEN {"site:dump-empty"} ELSE {})

    \* lines 138-141: SHOW TABLES for the header; the exit code is not looked at
    SiteTables ==
      /\ Running /\ pc = "s_tables"
      /\ SiteStep("show-tables", "all", {"ok", "fail"},
                    LAMBDA r : "s_header", LAMBDA r : {})

    \* lines 166-181
    SiteHeader ==
      /\ Running /\ pc = "s_header"
      /\ SiteStep("cat", "header", {"ok", "fail"},
                    LAMBDA r : IF r = "ok" THEN "s_filter" ELSE "exit1",
                    LAMBDA r : IF r = "fail" THEN {"site:header-failed"} ELSE {})

    \* lines 183-196
    SiteFilter ==
      /\ Running /\ pc = "s_filter"
      /\ SiteStep("grep", "raw", {"ok", "fail"},
                    LAMBDA r : IF r = "ok" THEN "s_rmraw" ELSE "exit1",
                    LAMBDA r : IF r = "fail" THEN {"site:filter-failed"} ELSE {})

    \* lines 198-214
    SiteRmRaw ==
      /\ Running /\ pc = "s_rmraw"
      /\ SiteStep("rm", "raw", {"ok", "fail"},
                    LAMBDA r : IF r = "ok" THEN "s_rsync" ELSE "exit1",
                    LAMBDA r : IF r = "ok" THEN {"site:dump-created"}
                               ELSE IF r = "fail" THEN {"site:cleanup-failed"} ELSE {})

    \* lines 219-221: command -v rsync || true
    SiteRsyncCheck ==
      /\ Running /\ pc = "s_rsync"
      /\ SiteStep("which", "rsync", {"found", "missing"},
                    LAMBDA r : "s_copy", LAMBDA r : {})

    \* lines 223-241: rsync, or the tar pipe when rsync is missing; a non-zero
    \* exit is a warning
    SiteCopy ==
      /\ Running /\ pc = "s_copy"
      /\ SiteStep("copy",
                    toolFor(log[Len(log)].res, "rsync"),
                    {"ok", "fail"},
                    LAMBDA r : "s_meta",
                    LAMBDA r : IF r = "ok" THEN {"site:copied"}
                               ELSE IF r = "fail" THEN {"site:copy-failed"} ELSE {})

    \* lines 245-261: wpmigrate-export.json; the exit code is not looked at
    SiteMeta ==
      /\ Running /\ pc = "s_meta"
      /\ SiteStep("cat", "meta", {"ok", "fail"},
                    LAMBDA r : "s_zipcheck", LAMBDA r : {})

    \* lines 265-267: command -v zip || true
    SiteZipCheck ==
      /\ Running /\ pc = "s_zipcheck"
      /\ SiteStep("which", "zip", {"found", "missing"},
                    LAMBDA r : "s_archive", LAMBDA r : {})

    \* lines 269-287: zip, or tar -czf when zip is missing; a non-zero exit is
    \* thrown
    SiteArchive ==
      /\ Running /\ pc = "s_archive"
      /\ SiteStep("archive",
                    toolFor(log[Len(log)].res, "zip"),
                    {"ok", "fail"},
                    LAMBDA r : IF r = "ok" THEN "s_lmkdir" ELSE "exit1",
                    LAMBDA r : {})

    \* line 290: fs.mkdir(outputDir)
    SiteLocalMkdir ==
      /\ Running /\ pc = "s_lmkdir"
      /\ SiteStep("local-mkdir", "output", {"ok"},
                    LAMBDA r : "s_pull", LAMBDA r : {})

    \* lines 295-317: transfer.downloadFile(remoteZip, localPath)
    SitePull ==
      /\ Running /\ pc = "s_pull"
      /\ SiteStep("get", "site-archive", {"ok"},
                    LAMBDA r : "s_cleanup",
                    LAMBDA r : IF r = "ok" THEN {"site:downloaded"} ELSE {})

    \* lines 319-321: rm -rf of the temporary directory and the archive; the
    \* exit code is not looked at
    SiteCleanup ==
      /\ Running /\ pc = "s_cleanup"
      /\ SiteStep("rm", "tmp", {"ok", "fail"},
                    LAMBDA r : "return",
                    LAMBDA r : IF r = "threw" THEN {} ELSE {"site:cleaned"})
  IN
    \/ SiteStart \/ SiteConnect \/ SiteMkdir \/ SiteDbTest \/ SiteDump
    \/ SiteDumpCheck \/ SiteTables \/ SiteHeader \/ SiteFilter \/ SiteRmRaw
    \/ SiteRsyncCheck \/ SiteCopy \/ SiteMeta \/ SiteZipCheck \/ SiteArchive
    \/ SiteLocalMkdir \/ SitePull \/ SiteCleanup

-----------------------------------------------------------------------------
(* updateWpConfig: rewrite of wp-config.php on the target *)

\* lines 678-689: the sed commands: DB_NAME, DB_USER, DB_PASSWORD, DB_HOST,
\* the table prefix when one is configured, the URL
wpConfigUpdates(prefix) ==
  <<"DB_NAME", "DB_USER", "DB_PASSWORD", "DB_HOST">>
    \o (IF prefix # "" THEN <<"table_prefix">> ELSE <<>>)
    \o <<"url">>

\* return { success: false, error } from inside the try block, or from the
\* catch block: the finally block disconnects, the caller gets the result
WpFail(tag) ==
  /\ msgs' = msgs \cup {tag}
  /\ loc' = [loc EXCEPT !.result = "error"]
  /\ Finally("main")

updateWpConfig ==
  LET
    \* lines 640-652: no SSH settings and no database settings are returned as
    \* errors; the session object is constructed between the two checks
    WpStart ==
      /\ Running /\ pc = "w_start"
      /\ UNCHANGED <<op, cfg, remote, log, localFiles>>
      /\ IF noSsh(cfg)
           THEN /\ msgs' = msgs \cup {"wpconfig:no-ssh"}
                /\ loc' = [loc EXCEPT !.result = "error"]
                /\ Return0
           ELSE IF ~cfg.hasDb
             THEN /\ msgs' = msgs \cup {"wpconfig:no-db"}
                  /\ loc' = [loc EXCEPT !.result = "error"]
                  /\ pc' = "end" /\ proc' = "returned" /\ exitCode' = 0
                  /\ sess' = [sess EXCEPT !["main"] = SSHTransfer]
             ELSE /\ msgs' = msgs /\ loc' = loc
                  /\ sess' = [sess EXCEPT !["main"] = SSHTransfer]
                  /\ pc' = "w_connect"
                  /\ UNCHANGED <<proc, exitCode>>

    \* line 655: a rejected connect is caught and returned as an error
    WpConnect ==
      /\ Running /\ pc = "w_connect"
      /\ \E r \in ConnectRes :
           IF r = "ok"
             THEN /\ sess' = [sess EXCEPT !["main"] = connect(@, r)]
                  /\ pc' = "w_check"
                  /\ UNCHANGED <<proc, exitCode, msgs, loc>>
             ELSE /\ sess' = [sess EXCEPT !["main"] = disconnect(connect(@, r))]
                  /\ pc' = "end" /\ proc' = "returned" /\ exitCode' = 0
                  /\ msgs' = msgs \cup {"wpconfig:error"}
                  /\ loc' = [loc EXCEPT !.result = "error"]
      /\ UNCHANGED <<op, cfg, remote, log, localFiles>>

    \* lines 657-661: test -f wp-config.php && echo exists
    WpCheck ==
      /\ Running /\ pc = "w_check"
      /\ \E r \in {"exists", "missing", "threw"} :
           /\ log' = Append(log, Entry("test-f", "wp-config", r))
           /\ CASE r = "exists"  -> /\ Stay("w_sed") /\ msgs' = msgs
                                     /\ loc' = [loc EXCEPT !.di = 1]
                [] r = "missing" -> WpFail("wpconfig:not-found")
                [] OTHER         -> WpFail("wpconfig:error")
      /\ UNCHANGED <<op, cfg, remote, localFiles>>

    \* lines 691-698: one sed command per step; a non-zero exit is a warning
    WpSed ==
      /\ Running /\ pc = "w_sed"
      /\ \E r \in ExecRes :
           /\ log' = Append(log, Entry("sed", wpConfigUpdates(cfg.prefix)[loc.di], r))
           /\ CASE r = "threw" -> WpFail("wpconfig:error")
                [] r # "threw" /\ loc.di < Len(wpConfigUpdates(cfg.prefix)) ->
                     /\ msgs' = msgs \cup (IF r = "fail" THEN {"wpconfig:warning"}
                                           ELSE {})
                     /\ loc' = [loc EXCEPT !.di = @ + 1]
                     /\ Stay("w_sed")
                [] OTHER ->
                     /\ msgs' = msgs \cup (IF r = "fail" THEN {"wpconfig:warning"}
                                           ELSE {})
                     /\ loc' = [loc EXCEPT !.di = @ + 1, !.result = "ok"]
                     /\ Finally("main")
      /\ UNCHANGED <<op, cfg, remote, localFiles>>
  IN
    WpStart \/ WpConnect \/ WpCheck \/ WpSed

-----------------------------------------------------------------------------
(* SSHTransfer.uploadFiles: src/transfer/ssh.ts *)

\* the files of one call, in input order
FileLists ==
  LET
    \* relative paths of the files handed to uploadFiles
    FileNames == {"index.php", "style.css", "logo.png"}
  IN
    UNION { { l \in [1..n -> FileNames] :
                \A i, j \in 1..n : i # j => l[i] # l[j] } : n \in 0..MaxFiles }

\* uploadFile rejects
uploadFileThrew(r) == r \in {"mkdir-threw", "put-threw", "chmod-threw"}

\* a loop without the try/catch: the first rejection leaves the function
AfterFile_rethrow(r, i, n) ==
  IF uploadFileThrew(r) THEN "throw" ELSE IF i < n THEN "f_file" ELSE "f_return"

\* lines 138-178: the try/catch is inside the for loop
AfterFile(r, i, n) == IF i < n THEN "f_file" ELSE "f_return"

\* lines 133-137: the call, on a connected session
UploadFilesStart ==
  /\ Running /\ pc = "f_start"
  /\ loc' = [loc EXCEPT !.completed = 0, !.total = Len(loc.files),
                         !.errors = <<>>, !.fi = 1]
  /\ Stay(AfterFile("ok", 0, Len(loc.files)))
  /\ UNCHANGED <<op, cfg, remote, log, msgs, localFiles>>

\* lines 138-178: one iteration of the loop
UploadFile ==
  LET
    \* how uploadFile (lines 121-127) ends for one file: all three sftp calls
    \* succeed; mkdir rejects with "already exists", which ensureRemoteDir
    \* (lines 107-117) swallows; mkdir rejects otherwise; put rejects; chmod
    \* rejects
    UploadFileRes == {"ok", "mkdir-exists", "mkdir-threw", "put-threw", "chmod-threw"}
  IN
    /\ Running /\ pc = "f_file"
    /\ \E r \in UploadFileRes :
         LET file == loc.files[loc.fi]
             next == AfterFile(r, loc.fi, Len(loc.files))
         IN  /\ log' = Append(log, Entry("upload-file", file, r))
             /\ loc' = [loc EXCEPT
                          !.fi = @ + 1,
                          !.completed = IF uploadFileThrew(r) THEN @ ELSE @ + 1,
                          !.errors = IF uploadFileThrew(r)
                                       THEN Append(@, [file |-> file, error |-> r])
                                       ELSE @]
             /\ IF next = "throw"
                  THEN pc' = "end" /\ proc' = "threw"
                         /\ UNCHANGED <<exitCode, sess>>
                  ELSE Stay(next)
    /\ UNCHANGED <<op, cfg, remote, msgs, localFiles>>

\* lines 181-185: return { completed, total, errors }
UploadFilesReturn ==
  /\ Running /\ pc = "f_return"
  /\ loc' = [loc EXCEPT !.transferResult =
                [completed |-> loc.completed, total |-> loc.total,
                 errors |-> loc.errors]]
  /\ pc' = "end" /\ proc' = "returned"
  /\ UNCHANGED <<op, cfg, remote, exitCode, sess, log, msgs, localFiles>>

uploadFiles == UploadFilesStart \/ UploadFile \/ UploadFilesReturn

-----------------------------------------------------------------------------

Config0 ==
  [flags |-> {}, dryRun |-> FALSE, backup |-> TRUE, skipBackup |-> FALSE,
   hasSsh |-> TRUE, isLocal |-> FALSE, hasDb |-> TRUE, hasSrcDb |-> TRUE,
   prefix |-> "wp_", srcPrefix |-> "wp_", filesOwner |-> FALSE, cmsOk |-> TRUE,
   hasFiles |-> TRUE, socket |-> FALSE, srcSocket |-> FALSE]

Init ==
  LET
    \* the remote host: whether some file below the site root is not owned by
    \* the configured files owner
    Remotes == [wrongOwner : BOOLEAN, backups : {{}}]

    \* backup create <environment> [flags] [--dry-run]
    InitBackup ==
      /\ op = "backup"
      /\ \E o \in FlagSets, d, s, h, k \in BOOLEAN, p \in {"", "wp_"} :
           /\ k => (h /\ "database" \in o)
           /\ cfg = [Config0 EXCEPT !.flags = o, !.dryRun = d, !.hasSsh = s,
                                    !.hasDb = h, !.prefix = p, !.socket = k]
      /\ pc = "b_start"

    \* upload <environment> [flags] [--dry-run] [--no-backup]
    InitUpload ==
      /\ op = "upload"
      /\ \E o \in FlagSets, d, b, s, l, f, c, h \in BOOLEAN :
           cfg = [Config0 EXCEPT !.flags = o, !.dryRun = d, !.backup = b,
                                 !.hasSsh = s, !.isLocal = l, !.filesOwner = f,
                                 !.cmsOk = c, !.hasFiles = h]
      /\ pc = "u_start"

    \* database upload from a local source environment to a remote target
    InitDbUpload ==
      /\ op = "dbupload"
      /\ \E d, k, s, h, hs, t, ts \in BOOLEAN, p, sp \in {"", "wp_"} :
           /\ t => h
           /\ ts => hs
           /\ cfg = [Config0 EXCEPT !.dryRun = d, !.skipBackup = k, !.hasSsh = s,
                                    !.hasDb = h, !.hasSrcDb = hs, !.prefix = p,
                                    !.srcPrefix = sp, !.socket = t,
                                    !.srcSocket = ts]
      /\ pc = "d_start"

    \* backup restore <environment> [--dry-run]
    InitRestore ==
      /\ op = "restore"
      /\ \E d, s, h, f, k \in BOOLEAN :
           /\ k => h
           /\ cfg = [Config0 EXCEPT !.dryRun = d, !.hasSsh = s, !.hasDb = h,
                                    !.filesOwner = f, !.socket = k]
      /\ pc = "r_start"

    \* backup list <environment>
    InitList ==
      /\ op = "list"
      /\ \E s \in BOOLEAN : cfg = [Config0 EXCEPT !.hasSsh = s]
      /\ pc = "l_start"

    \* backup delete <environment> [--all]
    InitDelete ==
      /\ op = "delete"
      /\ \E s \in BOOLEAN, o \in {{}, {"all"}} :
           cfg = [Config0 EXCEPT !.hasSsh = s, !.flags = o]
      /\ pc = "x_start"

    \* backup download <environment> [--all]
    InitGet ==
      /\ op = "download"
      /\ \E s \in BOOLEAN, o \in {{}, {"all"}} :
           cfg = [Config0 EXCEPT !.hasSsh = s, !.flags = o]
      /\ pc = "g_start"

    \* site download of a remote environment
    InitSite ==
      /\ op = "sitedownload"
      /\ \E s, h, k \in BOOLEAN :
           /\ k => h
           /\ cfg = [Config0 EXCEPT !.hasSsh = s, !.hasDb = h, !.socket = k]
      /\ pc = "s_start"

    \* wp-config update of a target environment
    InitWpConfig ==
      /\ op = "wpconfig"
      /\ \E s, h \in BOOLEAN, p \in {"", "wp_"} :
           cfg = [Config0 EXCEPT !.hasSsh = s, !.hasDb = h, !.prefix = p]
      /\ pc = "w_start"
  IN
    /\ \/ InitBackup \/ InitUpload \/ InitDbUpload \/ InitRestore
       \/ InitList \/ InitDelete \/ InitGet \/ InitSite \/ InitWpConfig
    /\ proc = "running"
    /\ exitCode = 0
    /\ sess = [s \in SessIds |-> NoSession]
    /\ log = <<>>
    /\ msgs = {}
    /\ localFiles = {}
    /\ loc = Locals0
    /\ remote \in Remotes
    /\ op \notin {"upload", "restore"} => ~remote.wrongOwner

Next ==
  \/ runBackup \/ runUpload \/ uploadDatabase \/ restoreBackup
  \/ listBackups \/ deleteBackups \/ downloadBackups \/ runDownload
  \/ updateWpConfig

Spec == Init /\ [][Next]_vars

-----------------------------------------------------------------------------
(* The backup lifecycle operations run to their end *)

\* backup create, list, delete, download and restore, as in Init
InitLife ==
  /\ Init
  /\ op \in {"backup", "list", "delete", "download", "restore"}

NextLife ==
  \/ runBackup \/ listBackups \/ deleteBackups \/ downloadBackups
  \/ restoreBackup

\* every step is the continuation of an awaited promise or of a prompt: the
\* runtime runs it once the remote command has settled or the user has
\* answered, so a step that stays possible is taken
SpecLife == InitLife /\ [][NextLife]_vars /\ WF_vars(NextLife)

-----------------------------------------------------------------------------
(* Ownership reconciliation run twice in a row *)

\* the reconciliation block (probe, then chown when needed) of the command
\* that just returned is entered a second time over a fresh connection, with
\* nothing else touching the remote host in between
SecondRun ==
  /\ pc = "end" /\ proc = "returned"
  /\ loc.round = 1
  /\ log # <<>> /\ log[Len(log)].cmd \in {"find-owner", "chown"}
  /\ pc' = IF op = "upload" THEN "u_chk" ELSE "r_chk"
  /\ proc' = "running"
  /\ sess' = [sess EXCEPT !["main"] = connect(SSHTransfer, "ok")]
  /\ loc' = [loc EXCEPT !.round = 2]
  /\ UNCHANGED <<op, cfg, remote, exitCode, log, msgs, localFiles>>

\* uploads without pre-upload backup and restores, with a files owner
InitTwice ==
  /\ Init
  /\ op \in {"upload", "restore"}
  /\ cfg.filesOwner
  /\ op = "upload" => ~cfg.backup

NextTwice == runUpload \/ restoreBackup \/ SecondRun

SpecTwice == InitTwice /\ [][NextTwice]_vars

-----------------------------------------------------------------------------
(* uploadFiles called on a connected session *)

InitFiles ==
  /\ op = "uploadFiles"
  /\ cfg = Config0
  /\ pc = "f_start"
  /\ proc = "running"
  /\ exitCode = 0
  /\ sess = [s \in SessIds |->
              IF s = "main" THEN connect(SSHTransfer, "ok") ELSE NoSession]
  /\ log = <<>>
  /\ msgs = {}
  /\ localFiles = {}
  /\ \E files \in FileLists : loc = [Locals0 EXCEPT !.files = files]
  /\ remote = Remote0

NextFiles == uploadFiles

SpecFiles == InitFiles /\ [][NextFiles]_vars

-----------------------------------------------------------------------------
(* ConfigWizard: the database steps of one environment and its saving *)

\* part_009 483-518, saveEnvironment: the entry stored under the domain of
\* the state it is handed; the table prefix only when it is not empty
saveEnvironment(environments, envState) ==
  {e \in environments : e.domain # envState.domain}
    \cup {[domain |-> envState.domain, name |-> envState.name,
            user |-> envState.user, password |-> envState.password,
            tablePrefix |-> envState.tablePrefix]}

\* the wizard as rendered: step, config.cms, config.environments and
\* currentEnv are what the handlers of this render see; submitted is what
\* the user has typed during the pass
InitWizard ==
  /\ op = "wizard"
  /\ cfg = Config0
  /\ pc = "z_step"
  /\ proc = "running"
  /\ exitCode = 0
  /\ sess = [s \in SessIds |-> NoSession]
  /\ log = <<>>
  /\ msgs = {}
  /\ localFiles = {}
  /\ \E cms \in {"wordpress", "custom"} :
       loc = [Locals0 EXCEPT !.wiz =
                [step |-> "env_domain", cms |-> cms, environments |-> {},
                 currentEnv |-> <<>>, submitted |-> <<>>, pass |-> 0]]
  /\ remote = Remote0

NextWizard ==
  LET
    w == loc.wiz
    Render(next) ==
      /\ Running /\ pc = "z_step"
      /\ loc' = [loc EXCEPT !.wiz = next]
      /\ UNCHANGED <<op, cfg, pc, proc, exitCode, sess, remote, log, msgs,
                     localFiles>>

    \* lines 62-82: createInitialEnvState
    createInitialEnvState ==
      [domain |-> "", name |-> "", user |-> "", password |-> "",
       tablePrefix |-> "wp_"]

    \* lines 322-341: the domain of the next environment; a domain that is
    \* configured already is loaded for editing (envConfigToState, 87-110).
    \* The steps from the type to the database host set fields that the
    \* database steps do not read.
    SubmitDomain ==
      /\ w.step = "env_domain" /\ w.pass < MaxPasses
      /\ \E domain \in {"d1", "d2"} :
           LET existing == {e \in w.environments : e.domain = domain}
               state ==
                 IF existing # {}
                   THEN LET e == CHOOSE x \in existing : TRUE
                        IN  [e EXCEPT !.tablePrefix =
                                        IF @ = "" THEN "wp_" ELSE @]
                   ELSE [createInitialEnvState EXCEPT !.domain = domain]
           IN  Render([w EXCEPT !.step = "db_name", !.currentEnv = state,
                                !.submitted = [domain |-> domain],
                                !.pass = @ + 1])

    \* lines 435-442
    SubmitDbName ==
      /\ w.step = "db_name"
      /\ \E value \in {"db"} :
           Render([w EXCEPT !.step = "db_user",
                            !.currentEnv.name = value,
                            !.submitted = [domain |-> @.domain, name |-> value]])

    \* lines 444-451
    SubmitDbUser ==
      /\ w.step = "db_user"
      /\ \E value \in {"u", "v"} :
           Render([w EXCEPT !.step = "db_password",
                            !.currentEnv.user = value,
                            !.submitted = [domain |-> @.domain, name |-> @.name,
                                           user |-> value]])

    \* lines 453-469: the password is queued into currentEnv; a CMS other
    \* than WordPress is saved at once, from the currentEnv of this render
    SubmitDbPassword ==
      /\ w.step = "db_password"
      /\ \E value \in {"", "p", "q"} :
           LET sub == [domain |-> w.submitted.domain, name |-> w.submitted.name,
                       user |-> w.submitted.user, password |-> value]
           IN  IF w.cms = "wordpress"
                 THEN Render([w EXCEPT !.step = "db_table_prefix",
                                       !.currentEnv.password = value,
                                       !.submitted = sub])
                 ELSE Render([w EXCEPT !.step = "add_another",
                                       !.currentEnv.password = value,
                                       !.submitted = sub,
                                       !.environments =
                                         saveEnvironment(@, w.currentEnv)])

    \* lines 471-478
    SubmitTablePrefix ==
      /\ w.step = "db_table_prefix"
      /\ \E value \in {"", "x_"} :
           LET finalEnvWithPrefix ==
                 [w.currentEnv EXCEPT !.tablePrefix =
                                        IF value = "" THEN "wp_" ELSE value]
           IN  Render([w EXCEPT !.step = "add_another",
                                !.environments =
                                  saveEnvironment(@, finalEnvWithPrefix)])

    \* lines 293-304: handleAddAnotherSelect
    AddAnother ==
      /\ w.step = "add_another"
      /\ \E again \in BOOLEAN :
           IF again
             THEN Render([w EXCEPT !.step = "env_domain",
                                   !.currentEnv = createInitialEnvState,
                                   !.submitted = <<>>])
             ELSE Render([w EXCEPT !.step = "confirm"])
  IN
    \/ SubmitDomain \/ SubmitDbName \/ SubmitDbUser \/ SubmitDbPassword
    \/ SubmitTablePrefix \/ AddAnother

SpecWizard == InitWizard /\ [][NextWizard]_vars

-----------------------------------------------------------------------------
(* BackupSelector: src/ui/BackupSelector.tsx *)

\* an up arrow that does not wrap
cursorUp_noWrap(prev, n) == prev - 1

\* line 35: prev > 0 ? prev - 1 : backups.length - 1
cursorUp(prev, n) == IF prev > 0 THEN prev - 1 ELSE n - 1

\* line 40: prev < backups.length - 1 ? prev + 1 : 0
cursorDown(prev, n) == IF prev < n - 1 THEN prev + 1 ELSE 0

\* lines 23-27: the component as first rendered, for a non-empty list
InitSelector ==
  /\ op = "selector"
  /\ cfg = Config0
  /\ pc = "k_key"
  /\ proc = "running"
  /\ exitCode = 0
  /\ sess = [s \in SessIds |-> NoSession]
  /\ log = <<>>
  /\ msgs = {}
  /\ localFiles = {}
  /\ \E backups \in Listings, singleSelect \in BOOLEAN :
       loc = [Locals0 EXCEPT !.backups = backups,
                             !.singleSelect = singleSelect]
  /\ remote = Remote0

\* lines 28-82: the useInput handler, one key press per step, each followed
\* by the render that the next key press sees
NextSelector ==
  LET
    n == Len(loc.backups)
    \* backups[i] of a JavaScript array, indices from 0
    At(i) == IF i + 1 \in DOMAIN loc.backups
               THEN loc.backups[i + 1] ELSE <<"undefined">>
    Has(i) == \E k \in DOMAIN loc.selectedIndices : loc.selectedIndices[k] = i
    Key(next) ==
      /\ Running /\ pc = "k_key"
      /\ loc' = next
      /\ UNCHANGED <<op, cfg, pc, proc, exitCode, sess, remote, log, msgs,
                     localFiles>>
    Done(said, picked) ==
      /\ Running /\ pc = "k_key"
      /\ pc' = "k_done"
      /\ msgs' = msgs \cup {said}
      /\ loc' = [loc EXCEPT !.picked = picked]
      /\ UNCHANGED <<op, cfg, proc, exitCode, sess, remote, log, localFiles>>

    \* lines 29-32
    Escape == Done("selector:cancel", <<>>)

    \* lines 34-37
    UpArrow == Key([loc EXCEPT !.cursorIndex = cursorUp(@, n)])

    \* lines 39-42
    DownArrow == Key([loc EXCEPT !.cursorIndex = cursorDown(@, n)])

    \* lines 45-56: space toggles the entry under the cursor; in
    \* single-select mode the key falls through and does nothing
    Space ==
      Key(IF loc.singleSelect THEN loc
          ELSE IF Has(loc.cursorIndex)
            THEN [loc EXCEPT !.selectedIndices =
                    SelectSeq(@, LAMBDA i : i # loc.cursorIndex)]
            ELSE [loc EXCEPT !.selectedIndices = Append(@, loc.cursorIndex)])

    \* lines 59-67: 'a' selects all, or none when all are selected
    SelectAll ==
      Key(IF loc.singleSelect THEN loc
          ELSE IF Len(loc.selectedIndices) = n
            THEN [loc EXCEPT !.selectedIndices = <<>>]
            ELSE [loc EXCEPT !.selectedIndices = [k \in 1..n |-> k - 1]])

    \* lines 70-81
    Return ==
      IF loc.singleSelect
        THEN Done("selector:select", <<At(loc.cursorIndex)>>)
        ELSE IF loc.selectedIndices = <<>>
          THEN Done("selector:cancel", <<>>)
          ELSE Done("selector:select",
                    [k \in DOMAIN loc.selectedIndices |->
                       At(loc.selectedIndices[k])])
  IN
    Escape \/ UpArrow \/ DownArrow \/ Space \/ SelectAll \/ Return

SpecSelector == InitSelector /\ [][NextSelector]_vars

-----------------------------------------------------------------------------
(* One SSHTransfer object called in any order *)

InitSession ==
  /\ op = "session"
  /\ cfg = Config0
  /\ pc = "t_call"
  /\ proc = "running"
  /\ exitCode = 0
  /\ sess = [s \in SessIds |-> IF s = "main" THEN SSHTransfer ELSE NoSession]
  /\ log = <<>>
  /\ msgs = {}
  /\ localFiles = {}
  /\ loc = Locals0
  /\ remote = Remote0

NextSession ==
  LET
    Call(cmd, r, s) ==
      /\ Running /\ pc = "t_call"
      /\ Len(log) < MaxCalls
      /\ log' = Append(log, Entry(cmd, "session", r))
      /\ sess' = [sess EXCEPT !["main"] = s]
      /\ UNCHANGED <<op, cfg, pc, proc, exitCode, remote, msgs, localFiles,
                     loc>>

    \* ssh.ts 44-88
    SessionConnect ==
      \E r \in ConnectRes : Call("connect", r, connect(sess["main"], r))

    \* ssh.ts 214-242
    SessionExec ==
      \E r \in exec(sess["main"]) : Call("exec", r, sess["main"])

    \* ssh.ts 93-102
    SessionDisconnect ==
      Call("disconnect", "ok", disconnect(sess["main"]))
  IN
    SessionConnect \/ SessionExec \/ SessionDisconnect

SpecSession == InitSession /\ [][NextSession]_vars

-----------------------------------------------------------------------------
(* Backup names against the clock *)

\* what generateBackupName is called with: the folder names of
\* getFoldersToBackup and 'database'
Categories == FolderFlags \cup {"database"}

\* time passes between two calls
Tick ==
  /\ Running /\ pc = "n_name"
  /\ \E t \in Instants : t > loc.now /\ loc' = [loc EXCEPT !.now = t]
  /\ UNCHANGED <<op, cfg, pc, proc, exitCode, sess, remote, log, msgs,
                 localFiles>>

\* one call of generateBackupName (backup.ts 23-28), new Date() reading
\* the clock
GenerateBackupName ==
  /\ Running /\ pc = "n_name"
  /\ Len(loc.names) < MaxNames
  /\ \E type \in Categories :
       loc' = [loc EXCEPT !.names =
                 Append(@, [at |-> loc.now, type |-> type,
                            name |-> backupNameAt(loc.now, type)])]
  /\ UNCHANGED <<op, cfg, pc, proc, exitCode, sess, remote, log, msgs,
                 localFiles>>

\* backup.ts 128-141: what tar -czf "<backupsDir>/<name>" leaves in the
\* backups directory: the file of that name is the new archive; when the
\* command fails or its channel breaks, the file is as it was or a partial
\* archive
tarInto(backups, name, k, r) ==
  LET others == {f \in backups : f.name # name}
  IN  IF r = "ok"
        THEN {others \cup {[name |-> name, content |-> k, whole |-> TRUE]}}
        ELSE {backups,
              others \cup {[name |-> name, content |-> k, whole |-> FALSE]}}

\* lines 117-141 of runBackup for the name generated last: the archive
\* command of one folder
ArchiveFolder ==
  /\ Running /\ pc = "n_name"
  /\ loc.archived < Len(loc.names)
  /\ LET k == loc.archived + 1 IN
     \E r \in ExecRes :
       /\ log' = Append(log, Entry("tar-c", loc.names[k].type, r))
       /\ remote' \in { [remote EXCEPT !.backups = b] :
                          b \in tarInto(remote.backups, loc.names[k].name, k, r) }
       /\ loc' = [loc EXCEPT !.archived = k]
  /\ UNCHANGED <<op, cfg, pc, proc, exitCode, sess, msgs, localFiles>>

InitNames ==
  /\ op = "generateBackupName"
  /\ cfg = Config0
  /\ pc = "n_name"
  /\ proc = "running"
  /\ exitCode = 0
  /\ sess = [s \in SessIds |-> NoSession]
  /\ log = <<>>
  /\ msgs = {}
  /\ localFiles = {}
  /\ \E t \in Instants : loc = [Locals0 EXCEPT !.now = t]
  /\ remote = Remote0

NextNames == Tick \/ GenerateBackupName \/ ArchiveFolder

SpecNames == InitNames /\ [][NextNames]_vars

-----------------------------------------------------------------------------
(* Commands called with a free-text environment identifier *)

\* the commands that start with resolveEnvironmentOrExit
ResolvingOps ==
  {"backup", "list", "delete", "download", "restore", "sitedownload"}

\* the options each of them is run with
ResolveConfigs(o) ==
  CASE o = "backup" ->
         { [Config0 EXCEPT !.flags = {"themes", "database"}, !.hasSsh = s] :
             s \in BOOLEAN }
    [] o \in {"delete", "download"} ->
         { [Config0 EXCEPT !.flags = f, !.hasSsh = s] :
             f \in {{}, {"all"}}, s \in BOOLEAN }
    [] o = "restore" ->
         { [Config0 EXCEPT !.dryRun = d, !.hasSsh = s, !.filesOwner = TRUE] :
             d, s \in BOOLEAN }
    [] OTHER ->
         { [Config0 EXCEPT !.hasSsh = s] : s \in BOOLEAN }

InitResolve ==
  /\ op \in ResolvingOps
  /\ cfg \in ResolveConfigs(op)
  /\ pc = "resolve"
  /\ proc = "running"
  /\ exitCode = 0
  /\ sess = [s \in SessIds |-> NoSession]
  /\ log = <<>>
  /\ msgs = {}
  /\ localFiles = {}
  /\ \E identifier \in Identifiers, environments \in Environments :
       loc = [Locals0 EXCEPT !.res = [identifier |-> identifier,
                                      environments |-> environments,
                                      out |-> NoOutcome]]
  /\ remote = Remote0

NextResolve ==
  \/ resolveEnvironmentOrExit
  \/ runBackup \/ listBackups \/ deleteBackups \/ downloadBackups
  \/ restoreBackup \/ runDownload

SpecResolve == InitResolve /\ [][NextResolve]_vars

-----------------------------------------------------------------------------
(* Commands started from the command line: bin/cli.ts *)

\* lines 19-38: getConfigForEnv, called by the action of every command
\* before the command function.  The configuration file may fail to load;
\* an argument that config.environments does not answer to ends the
\* process.  runUpload then reads config.environments[environment] itself,
\* the other commands call resolveEnvironmentOrExit.
GetConfigForEnv ==
  /\ Running /\ pc = "cli"
  /\ \E loaded \in BOOLEAN :
       CASE ~loaded ->
              /\ msgs' = msgs \cup {"cli:no-config"}
              /\ Exit1
              /\ UNCHANGED <<cfg, loc>>
         [] loaded /\ ~hasProperty(loc.res.environments, loc.res.identifier) ->
              /\ msgs' = msgs \cup {"cli:not-found"}
              /\ Exit1
              /\ UNCHANGED <<cfg, loc>>
         [] OTHER ->
              /\ msgs' = msgs
              /\ IF op = "upload"
                   THEN /\ Stay("u_start")
                        /\ cfg' = IF IsDomainKey(loc.res.environments,
                                                 loc.res.identifier)
                                    THEN cfg
                                    ELSE [cfg EXCEPT !.hasSsh = FALSE,
                                                     !.hasDb = FALSE]
                        /\ loc' = [loc EXCEPT !.res = NoRes]
                   ELSE /\ Stay("resolve")
                        /\ UNCHANGED <<cfg, loc>>
  /\ UNCHANGED <<op, remote, log, localFiles>>

InitCli ==
  LET
    \* the commands of cli.ts that take an <environment> argument
    CliOps == ResolvingOps \cup {"upload"}

    \* the options each of them is run with
    CliConfigs(o) ==
      IF o = "upload"
        THEN { [Config0 EXCEPT !.hasSsh = s, !.filesOwner = TRUE] : s \in BOOLEAN }
        ELSE ResolveConfigs(o)
  IN
    /\ op \in CliOps
    /\ cfg \in CliConfigs(op)
    /\ pc = "cli"
    /\ proc = "running"
    /\ exitCode = 0
    /\ sess = [s \in SessIds |-> NoSession]
    /\ log = <<>>
    /\ msgs = {}
    /\ localFiles = {}
    /\ \E identifier \in Identifiers, environments \in Environments :
         loc = [Locals0 EXCEPT !.res = [identifier |-> identifier,
                                        environments |-> environments,
                                        out |-> NoOutcome]]
    /\ remote = Remote0

\* the selector of the resolver is not among the steps: no argument that
\* passes getConfigForEnv gets that far
NextCli ==
  \/ GetConfigForEnv \/ ResolveEnvironment \/ EnvironmentResolved
  \/ runUpload
  \/ runBackup \/ listBackups \/ deleteBackups \/ downloadBackups
  \/ restoreBackup \/ runDownload

SpecCli == InitCli /\ [][NextCli]_vars

-----------------------------------------------------------------------------
(* Properties *)

Ended == proc \in {"returned", "exited"}

\* the commands issued so far that satisfy Test
Issued(Test(_)) == {i \in DOMAIN log : Test(log[i])}

IsUpdate(e) == e.cmd = "update"
Updates == SelectSeq(log, IsUpdate)

\* C1: every run that opened a Remote Session and issued commands attempts
\* disconnect before it ends, whether it returns, fails with a thrown error
\* or exits the process: no ended run has a session that is still connected.
C1_DisconnectOnEveryExit ==
  (Ended /\ log # <<>>) =>
    \A s \in SessIds : sess[s].made => (sess[s].disc /\ ~sess[s].connected)

\* C2: at most one Remote Session is connected at any moment, and once the
\* upload's own session exists the session of its pre-upload backup has been
\* disconnected.
C2_AtMostOneSession ==
  /\ Cardinality({s \in SessIds : sess[s].connected}) <= 1
  /\ (op = "upload" /\ sess["main"].made /\ sess["backup"].made)
       => (sess["backup"].disc /\ ~sess["backup"].connected)

C2_Witness ==
  /\ op = "upload"
  /\ sess["main"].connected
  /\ sess["backup"].disc /\ ~sess["backup"].connected
  /\ \E i \in DOMAIN log : log[i].cmd = "tar-c"

\* commands of a restore that change the remote site or database
Mutating == {"tar-x", "tar-x-temp", "import", "chown", "rm"}
IsMutating(e) == e.cmd \in Mutating

\* C3 as stated: in a non-dry-run restore a mutating remote command is issued
\* only when the typed answer is exactly 'yes'.
C3_OnlyExactYes ==
  (op = "restore" /\ ~cfg.dryRun /\ Issued(IsMutating) # {})
    => loc.answer = <<"y", "e", "s">>

\* the answers that spell yes in any letter case
YesAnyCase ==
  {a \in Answers : Len(a) = 3 /\ a[1] \in {"y", "Y"} /\ a[2] \in {"e", "E"}
                               /\ a[3] \in {"s", "S"}}

\* C3 amended: in a non-dry-run restore a mutating remote command (archive
\* extraction, database import, chown, removal) is issued only when the typed
\* answer spells yes in any letter case; for any other answer, and when the
\* selection is cancelled, nothing mutating is issued.
C3_OnlyConfirmed ==
  (op = "restore" /\ ~cfg.dryRun /\ Issued(IsMutating) # {})
    => loc.answer \in YesAnyCase

C3_Witness ==
  /\ op = "restore" /\ ~cfg.dryRun /\ proc = "returned"
  /\ loc.selected # <<>>
  /\ loc.answer = <<"n", "o">>
  /\ "restore:cancelled" \in msgs
  /\ Issued(IsMutating) = {}

ExtractFailed(e) == e = Entry("tar-x", "archive", "fail")
IsOwnerStep(e) == e.cmd \in {"find-owner", "chown"}
IsRmArchive(e) == e.cmd = "rm" /\ e.arg = "archive"

\* C4: in an upload a non-zero exit of the remote extract command is fatal:
\* the orphaned archive is removed, the run ends with a non-zero exit, the
\* upload is never reported complete and no later step (ownership) runs.
C4_ExtractFailureFatal ==
  (op = "upload" /\ Issued(ExtractFailed) # {})
    => /\ "upload:complete" \notin msgs
       /\ Issued(IsOwnerStep) = {}
       /\ proc # "returned"
       /\ Ended => (exitCode = 1 /\ Issued(IsRmArchive) # {})

ImportFailed(e) == e.cmd = "import" /\ e.arg = "dump" /\ e.res = "fail"
IsRmDump(e) == e.cmd = "rm" /\ e.arg = "dump"

\* C5: in a database upload whose import exits non-zero, the remove command
\* for the uploaded dump is issued next, the run ends with a non-zero exit,
\* and no URL-replacement UPDATE is issued.
C5_ImportFailureAborts ==
  (op = "dbupload" /\ Issued(ImportFailed) # {})
    => /\ Updates = <<>>
       /\ proc # "returned"
       /\ Running => (pc = "d_rmfail" /\ log[Len(log)].cmd = "import")
       /\ Ended => /\ exitCode = 1
                   /\ \E i \in Issued(ImportFailed) : IsRmDump(log[i + 1])

C5_Witness ==
  /\ op = "dbupload" /\ proc = "exited"
  /\ Issued(ImportFailed) # {}
  /\ Issued(IsRmDump) # {}

\* the step of the documented order a command belongs to
Phase(e) ==
  CASE e.cmd \in {"mkdir", "show-tables", "mysqldump"} -> 1
    [] e.cmd = "local-dump" -> 2
    [] e.cmd = "put"        -> 3
    [] e.cmd = "import"     -> 4
    [] e.cmd = "update"     -> 5
    [] OTHER                -> 6

TargetBackupFailed(e) == e.cmd = "mysqldump" /\ e.res = "fail"

\* C6: a database upload issues its steps in the order backup of the target
\* (unless suppressed), local dump, upload, import, URL replacement, removal
\* of the remote dump; a non-zero exit of the backup command is logged and
\* the local dump is the next step.
C6_StepOrder ==
  op = "dbupload" =>
    /\ \A i, j \in DOMAIN log : i < j => Phase(log[i]) <= Phase(log[j])
    /\ "db:complete" \in msgs =>
         [i \in DOMAIN log |-> Phase(log[i])] =
           (IF cfg.skipBackup THEN <<>> ELSE <<1, 1, 1>>)
             \o <<2, 3, 4, 5, 5, 5, 5, 5, 5, 5, 6>>
    /\ \A i \in Issued(TargetBackupFailed) :
         /\ "db:backup-failed" \in msgs
         /\ IF i < Len(log)
              THEN log[i + 1].cmd = "local-dump"
              ELSE Running /\ pc = "d_dumplocal"

C6_Witness ==
  /\ op = "dbupload" /\ proc = "returned"
  /\ "db:complete" \in msgs
  /\ Issued(TargetBackupFailed) # {}

\* the (table, column) pairs the URL replacement is to touch
C7_Fixed ==
  << "options:option_value", "posts:guid", "posts:post_content",
     "postmeta:meta_value", "comments:comment_content",
     "comments:comment_author_url", "termmeta:meta_value" >>

\* C7: URL replacement issues exactly the seven fixed statements, each once
\* and in order; a statement that exits non-zero is followed by the next one;
\* the reported count is the number of statements that exited with code 0.
C7_UrlReplacement ==
  op = "dbupload" =>
    /\ Len(Updates) <= Len(C7_Fixed)
    /\ \A i \in DOMAIN Updates : Updates[i].arg = C7_Fixed[i]
    /\ \A i \in DOMAIN Updates :
         (Updates[i].res = "fail" /\ i < Len(C7_Fixed))
           => (i < Len(Updates) \/ (Running /\ pc = "d_update"))
    /\ "db:updated" \in msgs =>
         /\ Len(Updates) = Len(C7_Fixed)
         /\ loc.successCount =
              Cardinality({i \in DOMAIN Updates : Updates[i].res = "ok"})

C7_Witness ==
  /\ op = "dbupload" /\ "db:updated" \in msgs
  /\ \E i, j \in DOMAIN Updates :
       Updates[i].res = "fail" /\ Updates[j].res = "ok" /\ i < j

NoTables(e) == e.cmd = "show-tables" /\ e.res = "none"
FullDump(e) == e.cmd = "mysqldump" /\ e.arg = "full"

\* C8: in backup create with a configured table prefix, an empty table
\* enumeration is reported as a warning and no unfiltered dump is made; an
\* unfiltered dump is made only when no prefix is configured.
C8_NoUnfilteredDump ==
  op = "backup" =>
    /\ Issued(NoTables) # {} => "backup:no-tables" \in msgs
    /\ Issued(FullDump) # {} => cfg.prefix = ""

TempExtract(e) == e.cmd = "tar-x-temp" /\ e.res \in {"ok", "fail"}
IsRmTemp(e) == e.cmd = "rm" /\ e.arg = "temp"

\* C9: a database restore that has begun (its extraction command ran) has
\* issued the removal of the temporary directory by the time it returns:
\* after a successful import, a failed import and a failed extraction.
C9_TempDirRemoved ==
  (op = "restore" /\ proc = "returned" /\ Issued(TempExtract) # {})
    => Issued(IsRmTemp) # {}

Created(e) == e.cmd \in {"local-tar", "local-dump"} /\ e.res = "ok"

\* C10: when an upload or a database upload that created its local temporary
\* file (archive or SQL dump) ends, by return or by exit, that file is gone.
C10_LocalTempRemoved ==
  (op \in {"upload", "dbupload"} /\ Ended /\ Issued(Created) # {})
    => localFiles = {}

\* the extract command of an upload that ran on the server
IsExtract(e) == e.cmd = "tar-x" /\ e.arg = "archive" /\ e.res # "threw"

\* the categories the pre-upload backup of this upload is to archive
UploadedCategories ==
  {getFoldersToBackup(backupOptions(cfg.flags))[i] :
     i \in DOMAIN getFoldersToBackup(backupOptions(cfg.flags))}

\* C11: in an upload whose backup option is not false, when the extract
\* command is issued every category being uploaded either has its backup
\* archive created (the archive command exited with code 0) or has nothing on
\* the server to overwrite (its source path does not exist).
C11_BackupBeforeExtract ==
  (op = "upload" /\ cfg.backup)
    => \A x \in Issued(IsExtract) : \A f \in UploadedCategories :
         \E i \in 1..(x - 1) :
           \/ log[i] = Entry("tar-c", f, "ok")
           \/ log[i] = Entry("exists", f, "no")

\* C12: backup create with dry-run returns with one planned archive name per
\* requested folder category, plus one for the database when requested,
\* without constructing a session or issuing any command.
C12_DryRunPlansOnly ==
  (op = "backup" /\ cfg.dryRun)
    => /\ \A s \in SessIds : ~sess[s].made
       /\ log = <<>>
       /\ (cfg.hasSsh /\ pc = "end") =>
            /\ proc = "returned"
            /\ Len(loc.planned) =
                 Len(getFoldersToBackup(cfg.flags))
                   + (IF "database" \in cfg.flags THEN 1 ELSE 0)
            /\ \A i \in 1..Len(getFoldersToBackup(cfg.flags)) :
                 loc.planned[i] = generateBackupName(getFoldersToBackup(cfg.flags)[i])
            /\ "database" \in cfg.flags =>
                 loc.planned[Len(loc.planned)] = generateBackupName("database")

C12_Witness ==
  /\ op = "backup" /\ cfg.dryRun /\ proc = "returned"
  /\ cfg.flags = {"themes", "database"}
  /\ Len(loc.planned) = 2

IsListing(e) == e.cmd = "tar-t"

\* C13: a restore with dry-run issues, after the listing of the backups
\* directory, only the archive-content listing command; it never reaches the
\* confirmation prompt and issues no extract, import, chown or remove.
C13_RestoreDryRun ==
  (op = "restore" /\ cfg.dryRun)
    => /\ pc # "r_confirm"
       /\ loc.answer = <<>>
       /\ Issued(IsMutating) = {}
       /\ \A i \in DOMAIN log :
            \/ i = 1 /\ log[i].cmd = "ls"
            \/ i = 2 /\ log[i].cmd = "tar-t"

C13_Witness ==
  /\ op = "restore" /\ cfg.dryRun /\ proc = "returned"
  /\ loc.selected # <<>>
  /\ Issued(IsListing) # {}

\* C14: an upload whose target is the local environment or has no SSH
\* settings constructs no session, runs no pre-upload backup and issues no
\* command; when it gets past the CMS, file and dry-run checks it returns
\* through the local-copy branch.
C14_LocalUploadNoSession ==
  (op = "upload" /\ (cfg.isLocal \/ ~cfg.hasSsh))
    => /\ \A s \in SessIds : ~sess[s].made
       /\ log = <<>>
       /\ "upload:backup-first" \notin msgs
       /\ pc \in {"u_start", "end"}
       /\ (pc = "end" /\ cfg.cmsOk /\ cfg.hasFiles /\ ~cfg.dryRun)
            => (proc = "returned" /\ "upload:local-copy" \in msgs)

C14_Witness ==
  /\ op = "upload" /\ cfg.isLocal /\ cfg.hasSsh /\ cfg.backup
  /\ proc = "returned"
  /\ "upload:local-copy" \in msgs

IsChown(e) == e.cmd = "chown"

\* C16 as stated: the chown command is issued only right after a probe that
\* found a wrongly owned file, and two reconciliations in a row issue it at
\* most once.
C16_ChownAtMostOnce ==
  /\ \A i \in Issued(IsChown) :
       i > 1 /\ log[i - 1] = Entry("find-owner", "root", "wrong")
  /\ Cardinality(Issued(IsChown)) <= 1

\* C16 amended: the chown command is issued only right after a probe that
\* found a wrongly owned file, at most once per reconciliation; after a chown
\* that exited with code 0 the next reconciliation finds no mismatch and
\* issues no chown (a second chown only ever follows a failed one).
C16_Idempotent ==
  /\ \A i \in Issued(IsChown) :
       i > 1 /\ log[i - 1] = Entry("find-owner", "root", "wrong")
  /\ Cardinality(Issued(IsChown)) <= loc.round
  /\ \A i, j \in Issued(IsChown) : i < j => log[i].res # "ok"
  /\ \A i \in Issued(IsChown) :
       (log[i].res = "ok" /\ i < Len(log))
         => log[i + 1] \in {Entry("find-owner", "root", "clean"),
                            Entry("find-owner", "root", "threw")}

C16_Witness ==
  /\ loc.round = 2 /\ proc = "returned"
  /\ \E i \in Issued(IsChown) : log[i].res = "ok"
  /\ log[Len(log)] = Entry("find-owner", "root", "clean")

ChownFailed(e) == e = Entry("chown", "root", "fail")

\* C17: an upload or file restore whose chown command exits non-zero prints
\* a warning and ends as a normal return with exit code 0.
C17_ChownFailureIsWarning ==
  (op \in {"upload", "restore"} /\ Issued(ChownFailed) # {})
    => /\ "owner:warning" \in msgs
       /\ pc = "end" /\ proc = "returned" /\ exitCode = 0

C17_Witness ==
  /\ op = "upload" /\ proc = "returned"
  /\ Issued(ChownFailed) # {}
  /\ "upload:extracted" \in msgs

\* the operations that only work on a remote environment
RemoteOps ==
  {"backup", "list", "delete", "download", "restore", "sitedownload",
   "dbupload", "wpconfig"}

\* the error messages of a rejection
Rejections ==
  {"backup:remote-only", "list:remote-only", "delete:remote-only",
   "get:remote-only", "restore:remote-only", "site:remote-only",
   "db:no-source-db", "db:no-target-db", "db:no-ssh", "wpconfig:no-ssh"}

\* C15: for an environment without SSH settings every remote operation ends
\* in its first step with an error (process exit 1, or an error result for
\* the wp-config update): no session is constructed or connected and no
\* command is issued.
C15_NoSshRejected ==
  (op \in RemoteOps /\ ~cfg.hasSsh)
    => /\ \A s \in SessIds : ~sess[s].made /\ ~sess[s].connected
       /\ log = <<>>
       /\ pc # "end" => (msgs = {} /\ Running)
       /\ pc = "end" =>
            /\ msgs \cap Rejections # {}
            /\ IF op = "wpconfig"
                 THEN proc = "returned" /\ loc.result = "error"
                 ELSE proc = "exited" /\ exitCode = 1

C15_Witness ==
  /\ op = "sitedownload" /\ ~cfg.hasSsh
  /\ proc = "exited" /\ exitCode = 1
  /\ "site:remote-only" \in msgs

\* resolveEnvironment has run on the identifier and the configuration held
\* in loc.res
Resolved == loc.res.out.kind # ""

\* C18: when the configuration has at least one environment and the
\* identifier is one of its domain keys, resolveEnvironment returns that very
\* key, shows no selector and prints no "Using" notice, whatever the types
\* and the other keys of the configuration are.
C18_ExactKeyReturned ==
  (/\ Resolved
   /\ Len(loc.res.environments) >= 1
   /\ IsDomainKey(loc.res.environments, loc.res.identifier))
    => /\ loc.res.out.kind = "found"
       /\ loc.res.out.domain = loc.res.identifier
       /\ ~loc.res.out.notice
       /\ msgs \cap {"resolve:using", "resolve:choose", "resolve:not-found"} = {}
       /\ pc = "resolved" /\ Running

\* an exact key that is also the type of another environment and a part of
\* that environment's key
C18_Witness ==
  /\ Resolved
  /\ loc.res.out.kind = "found"
  /\ loc.res.out.domain = loc.res.identifier
  /\ \E i, j \in DOMAIN loc.res.environments :
       /\ i # j
       /\ loc.res.environments[i].domain = loc.res.identifier
       /\ IsTypeMatch(loc.res.identifier, loc.res.environments[j])
       /\ IsFuzzyMatch(loc.res.identifier, loc.res.environments[j])

\* the entries whose type is the identifier, letter case aside
ByKind(identifier, environments) ==
  {i \in DOMAIN environments :
     /\ environments[i].type # <<>>
     /\ toLowerCase(environments[i].type) = toLowerCase(identifier)}

\* the entries whose key contains the identifier, letter case aside
BySubstring(identifier, environments) ==
  {i \in DOMAIN environments :
     includes(toLowerCase(environments[i].domain), toLowerCase(identifier))}

\* the candidates: by type, and by key only when no type matches
Candidates(identifier, environments) ==
  IF ByKind(identifier, environments) # {}
    THEN ByKind(identifier, environments)
    ELSE BySubstring(identifier, environments)

\* C19: for an identifier that is not a domain key, the candidates are the
\* environments whose type equals the identifier case-insensitively, and the
\* environments whose key contains the identifier only when there is no such
\* type; a single candidate is returned, with the "Using" notice printed.
C19_KindBeforeSubstring ==
  (/\ Resolved
   /\ Len(loc.res.environments) >= 1
   /\ ~IsDomainKey(loc.res.environments, loc.res.identifier))
    => LET cands == Candidates(loc.res.identifier, loc.res.environments) IN
       /\ cands # {} =>
            {loc.res.out.matches[k].domain : k \in DOMAIN loc.res.out.matches}
              = {loc.res.environments[i].domain : i \in cands}
       /\ Cardinality(cands) = 1 =>
            /\ loc.res.out.kind = "found"
            /\ \E i \in cands :
                 loc.res.out.domain = loc.res.environments[i].domain
            /\ loc.res.out.notice
            /\ "resolve:using" \in msgs

\* C20: when the identifier is no domain key, no type and no part of a key,
\* resolution fails and lists every environment with its type, and the
\* command ends with exit code 1 without having constructed or connected a
\* session or issued a command.
C20_NoMatchFails ==
  (/\ Resolved
   /\ ~IsDomainKey(loc.res.environments, loc.res.identifier)
   /\ Candidates(loc.res.identifier, loc.res.environments) = {})
    => /\ loc.res.out.kind = "null"
       /\ loc.res.out.listed = loc.res.environments
       /\ proc = "exited" /\ exitCode = 1
       /\ \A s \in SessIds : ~sess[s].made /\ ~sess[s].connected
       /\ log = <<>>

\* C21: when several environments match, they are offered for the choice of
\* one; when the user cancels the choice, resolution yields a result (null)
\* and the command ends by process.exit(1): it neither goes on nor waits.
C21_CancelIsFatal ==
  /\ (Resolved /\ Len(loc.res.out.matches) >= 2)
       => ("resolve:choose" \in msgs /\ loc.res.out.kind = "select")
  /\ "resolve:cancel-key" \in msgs
       => /\ proc = "exited" /\ exitCode = 1
          /\ pc = "end"

IsRmBackup(e) == e.cmd = "rm-backup"

\* the names under which the backups of a list appear in the log
Labels(backups) == {fileLabel(backups[k]) : k \in DOMAIN backups}

\* C22 as stated: a remove command is issued in delete-all mode only after
\* the typed answer 'yes', in interactive mode only for selected backups;
\* after a cancellation or any other answer there is no remove command.
C22_OnlyTypedYes ==
  op = "delete" =>
    /\ \A i \in Issued(IsRmBackup) :
         IF "all" \in cfg.flags
           THEN loc.answer = Yes /\ log[i].arg \in Labels(loc.backups)
           ELSE log[i].arg \in Labels(loc.chosen)
    /\ "delete:cancelled" \in msgs => Issued(IsRmBackup) = {}

\* C22 amended: a remove command is issued in delete-all mode only after a
\* typed answer that spells yes in any letter case, and then only for listed
\* backups; in interactive mode only for backups the user selected; after a
\* cancellation or any other answer there is no remove command.
C22_OnlyAuthorised ==
  op = "delete" =>
    /\ \A i \in Issued(IsRmBackup) :
         IF "all" \in cfg.flags
           THEN loc.answer \in YesAnyCase /\ log[i].arg \in Labels(loc.backups)
           ELSE log[i].arg \in Labels(loc.chosen)
    /\ "delete:cancelled" \in msgs => Issued(IsRmBackup) = {}
    /\ ("all" \in cfg.flags /\ loc.answer \notin YesAnyCase)
         => Issued(IsRmBackup) = {}

\* one of two listed backups selected and removed, the other left alone
C22_Witness ==
  /\ op = "delete" /\ "all" \notin cfg.flags /\ proc = "returned"
  /\ Len(loc.backups) = 2 /\ Len(loc.chosen) = 1
  /\ Cardinality(Issued(IsRmBackup)) = 1
  /\ \E k \in DOMAIN loc.backups :
       \A i \in Issued(IsRmBackup) : log[i].arg # fileLabel(loc.backups[k])

\* the remove commands issued so far, in order
Removals == SelectSeq(log, IsRmBackup)

\* C23: in backup delete a remove command that exits non-zero does not stop
\* the loop: the remove commands follow the chosen backups in order, one per
\* backup, each with its own report (deleted or failed), and once the
\* command has returned after a choice every chosen backup had its command.
C23_DeletionsIndependent ==
  (op = "delete" /\ \A i \in Issued(IsRmBackup) : log[i].res # "threw")
    => /\ Len(Removals) <= Len(loc.chosen)
       /\ Len(loc.reports) = Len(Removals)
       /\ \A k \in DOMAIN Removals :
            /\ Removals[k].arg = fileLabel(loc.chosen[k])
            /\ loc.reports[k] = [name |-> fileLabel(loc.chosen[k]),
                                 ok |-> Removals[k].res = "ok"]
       /\ (proc = "returned" /\ loc.chosen # <<>>)
            => (Len(Removals) = Len(loc.chosen) /\ "delete:done" \in msgs)

\* the first of two removals failed and the second was still issued
C23_Witness ==
  /\ op = "delete" /\ proc = "returned"
  /\ Len(loc.chosen) = 2 /\ Len(Removals) = 2
  /\ Removals[1].res = "fail" /\ Removals[2].res = "ok"
  /\ ~loc.reports[1].ok /\ loc.reports[2].ok

IsGet(e) == e.cmd = "get" /\ e.arg # "site-archive"

\* the transfers attempted so far, in order
Transfers == SelectSeq(log, IsGet)

\* C24: in backup download the transfers follow the chosen backups in order,
\* one per backup, whether or not earlier ones failed, each with its own
\* report; once backups are chosen the command never exits with an error,
\* and it ends as a normal return with the session disconnected after the
\* last transfer.
C24_TransfersIndependent ==
  op = "download" =>
    /\ Len(Transfers) <= Len(loc.chosen)
    /\ Len(loc.reports) = Len(Transfers)
    /\ \A k \in DOMAIN Transfers :
         /\ Transfers[k].arg = fileLabel(loc.chosen[k])
         /\ loc.reports[k] = [name |-> fileLabel(loc.chosen[k]),
                              ok |-> Transfers[k].res = "ok"]
    /\ loc.chosen # <<>> =>
         /\ proc \in {"running", "returned"}
         /\ proc = "returned" =>
              /\ Len(Transfers) = Len(loc.chosen)
              /\ "get:done" \in msgs
              /\ exitCode = 0
              /\ sess["main"].disc /\ ~sess["main"].connected

\* the first of two transfers failed and the second was still attempted
C24_Witness ==
  /\ op = "download" /\ proc = "returned"
  /\ Len(loc.chosen) = 2 /\ Len(Transfers) = 2
  /\ Transfers[1].res = "threw" /\ Transfers[2].res = "ok"
  /\ ~loc.reports[1].ok /\ loc.reports[2].ok
  /\ sess["main"].disc

IsMissing(e) == e.cmd = "exists" /\ e.res = "no"

\* C25: in backup create a category whose source path does not exist gets
\* the skip warning and no archive command, and the skip does not end the
\* run: a backup that completed has probed every requested category,
\* archived every one that exists and dumped the database when it was
\* requested and is configured.
C25_MissingSourceSkipped ==
  op = "backup" =>
    /\ \A i \in Issued(IsMissing) :
         /\ "backup:skip" \in msgs
         /\ \A j \in DOMAIN log :
              ~(log[j].cmd = "tar-c" /\ log[j].arg = log[i].arg)
         /\ i = Len(log) => proc # "exited"
    /\ "backup:complete" \in msgs =>
         LET folders == getFoldersToBackup(cfg.flags) IN
         /\ \A k \in DOMAIN folders :
              /\ \E i \in DOMAIN log :
                   log[i].cmd = "exists" /\ log[i].arg = folders[k]
              /\ (\E i \in DOMAIN log : log[i] = Entry("exists", folders[k], "yes"))
                   => \E j \in DOMAIN log :
                        log[j].cmd = "tar-c" /\ log[j].arg = folders[k]
         /\ ("database" \in cfg.flags /\ cfg.hasDb)
              => \E j \in DOMAIN log : log[j].cmd = "mysqldump"

\* the first category is missing, the second one is archived and the
\* database dumped
C25_Witness ==
  /\ op = "backup" /\ proc = "returned" /\ "backup:complete" \in msgs
  /\ \E i, j \in DOMAIN log :
       /\ i < j
       /\ IsMissing(log[i])
       /\ log[j].cmd \in {"tar-c", "mysqldump"} /\ log[j].res = "ok"
  /\ Cardinality(cfg.flags) = 2

\* the name has '-database.' in it
HasDatabaseMark(name) ==
  \E i \in 1..(Len(name) - 2) :
    name[i] = "-" /\ name[i + 1] = "database" /\ name[i + 2] = "."

IsImportPath(e) == e.cmd \in {"tar-x-temp", "import"}
IsRootExtract(e) == e.cmd = "tar-x"

\* C26: restore treats the selected archive as a database archive exactly
\* when its name contains '-database.': such an archive is only unpacked
\* into the temporary directory and imported, never extracted at the site
\* root; any other archive is only extracted at the site root, never
\* imported.
C26_ClassifiedByName ==
  (op = "restore" /\ loc.selected # <<>>)
    => /\ HasDatabaseMark(loc.selected) => Issued(IsRootExtract) = {}
       /\ ~HasDatabaseMark(loc.selected) => Issued(IsImportPath) = {}
       /\ \A i \in Issued(IsMutating) :
            (\A j \in Issued(IsMutating) : i <= j)
              => log[i].cmd = IF HasDatabaseMark(loc.selected)
                                THEN "tar-x-temp" ELSE "tar-x"

\* a database archive imported, and nothing extracted at the root
C26_Witness ==
  /\ op = "restore" /\ proc = "returned"
  /\ loc.selected = generateBackupName("database")
  /\ \E i \in DOMAIN log :
       log[i].cmd = "import" /\ log[i].arg = "temp" /\ log[i].res = "ok"
  /\ Issued(IsRootExtract) = {}

IsUploadFile(e) == e.cmd = "upload-file"

\* the files whose upload was rejected, in input order
FailedFiles ==
  LET attempts == SelectSeq(log, LAMBDA e : IsUploadFile(e) /\ uploadFileThrew(e.res))
  IN  [k \in DOMAIN attempts |-> attempts[k].arg]

\* C27: uploadFiles never throws; it attempts every file in input order,
\* and its result has total equal to the number of input files, errors
\* naming the failed files in input order and completed + number of errors
\* = total.
C27_UploadFilesTotal ==
  op = "uploadFiles" =>
    /\ proc # "threw"
    /\ \A k \in DOMAIN log :
         log[k].cmd = "upload-file" /\ log[k].arg = loc.files[k]
    /\ pc = "end" =>
         /\ proc = "returned"
         /\ Len(log) = Len(loc.files)
         /\ loc.transferResult.total = Len(loc.files)
         /\ [k \in DOMAIN loc.transferResult.errors |->
               loc.transferResult.errors[k].file] = FailedFiles
         /\ loc.transferResult.completed + Len(loc.transferResult.errors)
              = loc.transferResult.total

\* three files, the first and the last rejected, the second uploaded
C27_Witness ==
  /\ op = "uploadFiles" /\ proc = "returned"
  /\ Len(loc.files) = 3
  /\ uploadFileThrew(log[1].res) /\ log[2].res = "ok"
  /\ uploadFileThrew(log[3].res)
  /\ loc.transferResult.completed = 1
  /\ Len(loc.transferResult.errors) = 2

\* commands that run a database client: for the environment the command
\* works on, and for the local source of a database upload
IsDbClient(e) ==
  e.cmd \in {"show-tables", "mysqldump", "import", "update", "db-test"}
IsLocalDbClient(e) == e.cmd = "local-dump"

\* C28: every database client command (table listing, dump, import, URL
\* update, on the remote host and locally) connects through the unix socket
\* when the database entry has one, and through host/port only when it has
\* none.
C28_SocketPreferred ==
  /\ \A i \in Issued(IsDbClient) :
       log[i].via = IF cfg.socket THEN "socket" ELSE "host"
  /\ \A i \in Issued(IsLocalDbClient) :
       log[i].via = IF cfg.srcSocket THEN "socket" ELSE "host"

\* the steps of the database migration, in order
MigrationSteps == <<"mysqldump", "local-dump", "put", "import", "update">>

\* C30: an upload with the database option, or with all, that ran to its
\* end has migrated the database as part of the run: backup of the target
\* database, dump of the local source, upload of the dump, import and URL
\* replacement, all after the extraction of the files.
C30_UploadMigratesDatabase ==
  (/\ op = "upload"
   /\ cfg.flags \cap {"database", "all"} # {}
   /\ proc = "returned" /\ "upload:complete" \in msgs)
    => \E f \in [DOMAIN MigrationSteps -> DOMAIN log] :
         /\ \A k \in DOMAIN MigrationSteps : log[f[k]].cmd = MigrationSteps[k]
         /\ \A k \in 1..(Len(MigrationSteps) - 1) : f[k] < f[k + 1]
         /\ \A i \in Issued(IsExtract) : i < f[1]

\* C29: for every command line command with an environment argument, an
\* argument that is no domain key but matches exactly one environment by
\* type, or else by a part of its key, is accepted: the command is not
\* turned away as unknown and goes on to work on the matched environment.
C29_TypeOrPartialAccepted ==
  (/\ pc # "cli"
   /\ "cli:no-config" \notin msgs
   /\ loc.res.environments # <<>>
   /\ ~IsDomainKey(loc.res.environments, loc.res.identifier)
   /\ Cardinality(Candidates(loc.res.identifier, loc.res.environments)) = 1)
    => /\ "cli:not-found" \notin msgs
       /\ proc # "exited"

\* the UTC minute an instant falls in
MinuteOf(t) == t \div 60

\* C31: the backup name generated for a category at an instant is the UTC
\* date and minute of the instant followed by the category, in the shape
\* YYYY-MM-DD-HH-mm-<category>.tar.gz; two calls give the same name exactly
\* when they fall in the same minute and are for the same category.
C31_NamePerMinuteAndCategory ==
  \A i, j \in DOMAIN loc.names :
    LET a == loc.names[i]
        b == loc.names[j]
    IN  /\ Len(a.name) = 22
        /\ \A k \in {5, 8, 11, 14, 17} : a.name[k] = "-"
        /\ SubSeq(a.name, 1, 10) = SubSeq(toISOString(a.at), 1, 10)
        /\ SubSeq(a.name, 12, 13) = SubSeq(toISOString(a.at), 12, 13)
        /\ SubSeq(a.name, 15, 16) = SubSeq(toISOString(a.at), 15, 16)
        /\ SubSeq(a.name, 18, 22) = <<a.type, ".", "tar", ".", "gz">>
        /\ (a.name = b.name) <=> (MinuteOf(a.at) = MinuteOf(b.at) /\ a.type = b.type)

\* two names of one category from different seconds of one minute, and a
\* third case: the same category an hour later
C31_Witness ==
  /\ Len(loc.names) = 2
  /\ loc.names[1].at # loc.names[2].at
  /\ MinuteOf(loc.names[1].at) = MinuteOf(loc.names[2].at)
  /\ loc.names[1].type = loc.names[2].type

IsSiteMkdir(e) == e.cmd = "mkdir" /\ e.arg = "tmp"
IsSiteArchive(e) == e.cmd = "archive"
IsSitePull(e) == e.cmd = "get" /\ e.arg = "site-archive"
IsSiteCleanup(e) == e.cmd = "rm" /\ e.arg = "tmp"
NotDone(e) == e.res \in {"fail", "threw", "empty"}

\* C32: a site download does not fail because rsync or zip is missing on
\* the remote host: the copy and the archive use tar exactly when the
\* probe found no preferred tool, and a run in which no command failed
\* returns having built one remote archive, pulled it and, last of all,
\* removed the remote temporaries, whatever the two probes answered.
C32_ToolFallback ==
  /\ \A i \in DOMAIN log :
       /\ log[i].cmd = "copy" =>
            log[i].arg = (IF log[i - 1].res = "missing" THEN "tar" ELSE "rsync")
       /\ log[i].cmd = "archive" =>
            log[i].arg = (IF log[i - 1].res = "missing" THEN "tar" ELSE "zip")
  /\ (op = "sitedownload" /\ Ended /\ Issued(IsSiteMkdir) # {}
        /\ Issued(NotDone) = {})
      => /\ proc = "returned"
         /\ Cardinality(Issued(IsSiteArchive)) = 1
         /\ Cardinality(Issued(IsSitePull)) = 1
         /\ IsSiteCleanup(log[Len(log)])

\* a run on a host with neither rsync nor zip that returned
C32_Witness ==
  /\ op = "sitedownload" /\ proc = "returned"
  /\ Issued(NotDone) = {}
  /\ \E i, j \in DOMAIN log :
       /\ log[i].cmd = "copy" /\ log[i].arg = "tar"
       /\ log[j].cmd = "archive" /\ log[j].arg = "tar"

IsTar(e) == e.cmd = "tar-c"

\* the file archives the flags of a backup create call for
ExpectedArchives(o) ==
  IF "all" \in o THEN {"all"}
  ELSE IF o \cap {"themes", "plugins", "uploads", "core"} # {}
    THEN o \cap {"themes", "plugins", "uploads", "core"}
  ELSE IF "database" \in o THEN {}
  ELSE {"all"}

\* C33: the file archives of a backup create are determined by the flags:
\* 'all' gives the one 'all' archive whatever other folder flags are set,
\* otherwise one archive per selected folder flag, no flag at all gives the
\* 'all' archive and database alone gives no file archive.  No archive
\* command is issued outside that set or twice, and a run that completed
\* with every source present has issued one for each member.
C33_ArchivesByFlags ==
  op = "backup" =>
    /\ \A i \in Issued(IsTar) :
         /\ log[i].arg \in ExpectedArchives(cfg.flags)
         /\ \A j \in Issued(IsTar) : log[j].arg = log[i].arg => j = i
    /\ ("backup:complete" \in msgs /\ Issued(IsMissing) = {})
         => { log[i].arg : i \in Issued(IsTar) } = ExpectedArchives(cfg.flags)

\* a completed backup create called with 'all' and another folder flag
C33_Witness ==
  /\ op = "backup" /\ "backup:complete" \in msgs
  /\ "all" \in cfg.flags /\ cfg.flags \cap {"themes", "plugins", "uploads", "core"} # {}
  /\ Issued(IsTar) # {}

\* the names the program gives to the database archives it creates: by
\* backup create with the database option and by the pre-migration backup
\* of a database upload
OwnDatabaseArchives == {generateBackupName("database"), preUploadBackupName}

\* C34: every database archive the program itself creates has a name that
\* restore classifies as a database archive: a restore of it takes the
\* import path and never extracts its SQL file into the site root.
C34_OwnDatabaseArchivesImported ==
  (op = "restore" /\ loc.selected \in OwnDatabaseArchives)
    => /\ isDatabase(loc.selected)
       /\ Issued(IsRootExtract) = {}

\* C35: creating a backup never replaces an existing backup archive: every
\* archive a creation completed is still in the backups directory with its
\* content after the creations that follow, also when two creations for
\* one category fall in the same minute.
C35_NoArchiveReplaced ==
  \A k \in 1..loc.archived :
    log[k].res = "ok" =>
      [name |-> loc.names[k].name, content |-> k, whole |-> TRUE]
        \in remote.backups

TempDirMade(e) == IsSiteMkdir(e) /\ e.res = "ok"
TempDirRemoved(e) == IsSiteCleanup(e) /\ e.res = "ok"

\* C37: after a site download has ended by any path that follows the
\* creation of its remote temporary directory (success, failed database
\* test or dump, failed archive creation, failed transfer), the temporary
\* directory and the remote archive have been removed.
C37_SiteTemporariesRemoved ==
  (op = "sitedownload" /\ Ended /\ Issued(TempDirMade) # {})
    => Issued(TempDirRemoved) # {}

\* whether call number i comes after a successful connect with no
\* disconnect in between
ConnectedAt(i) ==
  \E c \in 1..(i - 1) :
    /\ log[c].cmd = "connect" /\ log[c].res = "ok"
    /\ \A d \in (c + 1)..(i - 1) : log[d].cmd # "disconnect"

\* C38: a Remote Session executes commands only while connected: for any
\* sequence of connect, exec and disconnect calls, an exec before a
\* successful connect or after a disconnect fails with a 'not connected'
\* error and runs nothing.
C38_ExecOnlyWhileConnected ==
  op = "session" =>
    \A i \in DOMAIN log :
      (log[i].cmd = "exec" /\ ~ConnectedAt(i))
        => log[i].res \in {"not-connected", "client-not-connected"}

\* exec refused on a fresh object, after a connect that failed and after a
\* disconnect
C38_Witness ==
  /\ op = "session" /\ Len(log) = 4
  /\ log[1].cmd = "connect" /\ log[1].res = "ok"
  /\ log[2].cmd = "exec" /\ log[2].res = "ok"
  /\ log[3].cmd = "disconnect"
  /\ log[4].cmd = "exec" /\ log[4].res = "not-connected"

\* C39: every environment entry the configuration wizard saves holds the
\* values the user submitted for it during that pass, the database
\* password among them, for WordPress and for any other CMS choice.
C39_SavedAsSubmitted ==
  (op = "wizard" /\ loc.wiz.step = "add_another")
    => \E e \in loc.wiz.environments :
         /\ e.domain = loc.wiz.submitted.domain
         /\ e.name = loc.wiz.submitted.name
         /\ e.user = loc.wiz.submitted.user
         /\ e.password = loc.wiz.submitted.password

\* C40: in the backup selector, after any sequence of key presses on a
\* non-empty list the cursor index stays within the list (up from the
\* first entry wraps to the last, down from the last to the first), so
\* confirming in single-select mode yields exactly one backup, the one
\* under the cursor.
C40_CursorInBounds ==
  op = "selector" =>
    /\ loc.cursorIndex \in 0..(Len(loc.backups) - 1)
    /\ (loc.singleSelect /\ "selector:select" \in msgs)
         => /\ Len(loc.picked) = 1
            /\ loc.picked[1] = loc.backups[loc.cursorIndex + 1]
            /\ loc.picked[1] # <<"undefined">>

\* the second of two entries confirmed in single-select mode
C40_Witness ==
  /\ op = "selector" /\ loc.singleSelect /\ "selector:select" \in msgs
  /\ Len(loc.backups) = 2
  /\ loc.cursorIndex = 1
  /\ loc.picked = <<loc.backups[2]>>

====
